---- MODULE Spec2Model ----
(***************************************************************************)
(* A model of ibex, the 6502 / Apex emulator: the instruction catalog      *)
(* (instruction_set.cc), the CPU core (cpu6502.cc), the memory             *)
(* (memory.cc), the Apex system-call layer and its character devices       *)
(* (apex.cc, apex_*_device.cc) and the execution loop of main (ibex.cc).   *)
(*                                                                         *)
(* Numbers are written in decimal; the hexadecimal value of the source is  *)
(* given in a comment where it helps.                                      *)
(***************************************************************************)
EXTENDS Integers, Sequences, FiniteSets, TLC

VARIABLES
    registers,            \* CPU6502::registers  (a, x, y, s, pc, p, e)
    m_memory,             \* Memory::m_memory, kept sparse: the nonzero bytes only
    m_halt,               \* CPU6502::m_halt
    m_instruction_count,  \* CPU6502::m_instruction_count
    m_cycle_count,        \* CPU6502::m_cycle_count
    m_sets,               \* InstructionSet::m_sets, the active variant set
    devices,              \* the character devices' members and their streams
    plain_char_is_signed, \* whether the build's plain char is signed
    run,                  \* main's local "run"
    phase,                \* "running", "exited" (main returned) or "aborted"
    exit_code,            \* the exit status once phase = "exited", -1 before
    history               \* what each loop iteration did, in order (observation only)

\* m_instruction_cycle_count is written by execute_instruction before it is
\* read, so it is carried in the CPU record of one instruction (c.icc) and is
\* no variable.

vars == << registers, m_memory, m_halt, m_instruction_count, m_cycle_count,
           m_sets, devices, plain_char_is_signed, run, phase, exit_code, history >>

----------------------------------------------------------------------------
(* Bounds of the exploration.                                              *)

\* ExecuteInstruction is not taken once this many instructions were counted.
MaxInstructions == 12

\* ApexDispatch is not taken once this many bytes were written to standard output.
MaxOutput == 6

----------------------------------------------------------------------------
(* Bit operations on naturals, as C++ computes them on unsigned values.    *)

RECURSIVE BitAnd(_, _)
BitAnd(x, y) ==
    IF x = 0 \/ y = 0 THEN 0
    ELSE ((x % 2) * (y % 2)) + 2 * BitAnd(x \div 2, y \div 2)

RECURSIVE BitOr(_, _)
BitOr(x, y) ==
    IF x = 0 THEN y
    ELSE IF y = 0 THEN x
    ELSE (IF (x % 2) + (y % 2) > 0 THEN 1 ELSE 0) + 2 * BitOr(x \div 2, y \div 2)

RECURSIVE BitXor(_, _)
BitXor(x, y) ==
    IF x = 0 THEN y
    ELSE IF y = 0 THEN x
    ELSE (((x % 2) + (y % 2)) % 2) + 2 * BitXor(x \div 2, y \div 2)

\* conversion of an int to std::uint8_t, std::uint16_t
U8(v)  == v % 256
U16(v) == v % 65536

\* bit n of v
Bit(v, n) == (v \div (2 ^ n)) % 2

----------------------------------------------------------------------------
(* The instruction catalog (instruction_set.hh, instruction_set.cc).       *)

\* InstructionSet::Set values and the predefined variant sets
CPU_6502      == {"BASE"}
CPU_R65C02    == {"BASE", "CMOS", "ROCKWELL_BIT"}
CPU_R6502     == {"BASE", "ROCKWELL_BIT"}
CPU_65C02     == {"BASE", "CMOS"}
CPU_WDC65C02  == {"BASE", "CMOS", "ROCKWELL_BIT", "WDC_CMOS"}
CPU_WDC65C816 == {"BASE", "CMOS", "WDC_CMOS", "WDC_16_BIT"}
CPU_65CE02    == {"BASE", "CMOS", "ROCKWELL_BIT", "CBM_65CE02"}

\* enum class Set
Set == {"BASE", "ROCKWELL_BIT", "CMOS", "WDC_CMOS", "WDC_16_BIT", "CBM_65CE02"}


UNKNOWN_CYCLE_COUNT == 255

\* One tuple per record of s_main_table, in the order of the source:
\* << inst, set, mode, opcode, base_cycle_count, page_crossing_extra_cycle,
\*    nmos_extra_cycle_forced, cmos_extra_cycle >>.  The mnemonic string of a
\* record is the lower-case name of its inst and is not repeated.
s_main_table ==
  <<
    << "ADC", "BASE", "IMMEDIATE", 105, 1, FALSE, FALSE, FALSE >>,
    << "ADC", "BASE", "ZERO_PAGE", 101, 1, FALSE, FALSE, FALSE >>,
    << "ADC", "BASE", "ZERO_PAGE_X", 117, 1, FALSE, FALSE, FALSE >>,
    << "ADC", "CMOS", "ZP_IND", 114, 1, FALSE, FALSE, FALSE >>,
    << "ADC", "BASE", "ZP_X_IND", 97, 1, FALSE, FALSE, FALSE >>,
    << "ADC", "BASE", "ZP_IND_Y", 113, 1, TRUE, FALSE, FALSE >>,
    << "ADC", "BASE", "ABSOLUTE", 109, 1, FALSE, FALSE, FALSE >>,
    << "ADC", "BASE", "ABSOLUTE_X", 125, 1, TRUE, FALSE, FALSE >>,
    << "ADC", "BASE", "ABSOLUTE_Y", 121, 1, TRUE, FALSE, FALSE >>,
    << "AND", "BASE", "IMMEDIATE", 41, 1, FALSE, FALSE, FALSE >>,
    << "AND", "BASE", "ZERO_PAGE", 37, 1, FALSE, FALSE, FALSE >>,
    << "AND", "BASE", "ZERO_PAGE_X", 53, 1, FALSE, FALSE, FALSE >>,
    << "AND", "CMOS", "ZP_IND", 50, 1, FALSE, FALSE, FALSE >>,
    << "AND", "BASE", "ZP_X_IND", 33, 1, FALSE, FALSE, FALSE >>,
    << "AND", "BASE", "ZP_IND_Y", 49, 1, TRUE, FALSE, FALSE >>,
    << "AND", "BASE", "ABSOLUTE", 45, 1, FALSE, FALSE, FALSE >>,
    << "AND", "BASE", "ABSOLUTE_X", 61, 1, TRUE, FALSE, FALSE >>,
    << "AND", "BASE", "ABSOLUTE_Y", 57, 1, TRUE, FALSE, FALSE >>,
    << "ASL", "BASE", "ACCUMULATOR", 10, 2, FALSE, FALSE, FALSE >>,
    << "ASL", "BASE", "ZERO_PAGE", 6, 3, FALSE, FALSE, FALSE >>,
    << "ASL", "BASE", "ZERO_PAGE_X", 22, 3, FALSE, FALSE, FALSE >>,
    << "ASL", "BASE", "ABSOLUTE", 14, 3, FALSE, FALSE, FALSE >>,
    << "ASL", "BASE", "ABSOLUTE_X", 30, 3, TRUE, TRUE, FALSE >>,
    << "ASR", "CBM_65CE02", "ACCUMULATOR", 67, UNKNOWN_CYCLE_COUNT, FALSE, FALSE, FALSE >>,
    << "ASR", "CBM_65CE02", "ZERO_PAGE", 68, UNKNOWN_CYCLE_COUNT, FALSE, FALSE, FALSE >>,
    << "ASR", "CBM_65CE02", "ZERO_PAGE_X", 84, UNKNOWN_CYCLE_COUNT, FALSE, FALSE, FALSE >>,
    << "ASW", "CBM_65CE02", "ABSOLUTE", 203, UNKNOWN_CYCLE_COUNT, FALSE, FALSE, FALSE >>,
    << "AUG", "CBM_65CE02", "IMPLIED", 92, UNKNOWN_CYCLE_COUNT, FALSE, FALSE, FALSE >>,
    << "BBR", "ROCKWELL_BIT", "ZP_RELATIVE", 15, 3, FALSE, FALSE, FALSE >>,
    << "BBS", "ROCKWELL_BIT", "ZP_RELATIVE", 143, 3, FALSE, FALSE, FALSE >>,
    << "BCC", "BASE", "RELATIVE", 144, 2, FALSE, FALSE, FALSE >>,
    << "BCC", "CBM_65CE02", "RELATIVE_16", 147, UNKNOWN_CYCLE_COUNT, FALSE, FALSE, FALSE >>,
    << "BCS", "BASE", "RELATIVE", 176, 2, FALSE, FALSE, FALSE >>,
    << "BCS", "CBM_65CE02", "RELATIVE_16", 179, UNKNOWN_CYCLE_COUNT, FALSE, FALSE, FALSE >>,
    << "BEQ", "BASE", "RELATIVE", 240, 2, FALSE, FALSE, FALSE >>,
    << "BEQ", "CBM_65CE02", "RELATIVE_16", 243, UNKNOWN_CYCLE_COUNT, FALSE, FALSE, FALSE >>,
    << "BIT", "CMOS", "IMMEDIATE", 137, 1, FALSE, FALSE, FALSE >>,
    << "BIT", "BASE", "ZERO_PAGE", 36, 1, FALSE, FALSE, FALSE >>,
    << "BIT", "CMOS", "ZERO_PAGE_X", 52, 1, FALSE, FALSE, FALSE >>,
    << "BIT", "BASE", "ABSOLUTE", 44, 1, FALSE, FALSE, FALSE >>,
    << "BIT", "CMOS", "ABSOLUTE_X", 60, 1, TRUE, FALSE, FALSE >>,
    << "BMI", "BASE", "RELATIVE", 48, 2, FALSE, FALSE, FALSE >>,
    << "BMI", "CBM_65CE02", "RELATIVE_16", 51, UNKNOWN_CYCLE_COUNT, FALSE, FALSE, FALSE >>,
    << "BNE", "BASE", "RELATIVE", 208, 2, FALSE, FALSE, FALSE >>,
    << "BNE", "CBM_65CE02", "RELATIVE_16", 211, UNKNOWN_CYCLE_COUNT, FALSE, FALSE, FALSE >>,
    << "BPL", "BASE", "RELATIVE", 16, 2, FALSE, FALSE, FALSE >>,
    << "BPL", "CBM_65CE02", "RELATIVE_16", 19, UNKNOWN_CYCLE_COUNT, FALSE, FALSE, FALSE >>,
    << "BRK", "BASE", "IMPLIED", 0, 7, FALSE, FALSE, FALSE >>,
    << "BRA", "CMOS", "RELATIVE", 128, 2, FALSE, FALSE, FALSE >>,
    << "BRA", "CBM_65CE02", "RELATIVE_16", 131, UNKNOWN_CYCLE_COUNT, FALSE, FALSE, FALSE >>,
    << "BSR", "CBM_65CE02", "RELATIVE_16", 99, UNKNOWN_CYCLE_COUNT, FALSE, FALSE, FALSE >>,
    << "BVC", "BASE", "RELATIVE", 80, 2, FALSE, FALSE, FALSE >>,
    << "BVC", "CBM_65CE02", "RELATIVE_16", 83, UNKNOWN_CYCLE_COUNT, FALSE, FALSE, FALSE >>,
    << "BVS", "BASE", "RELATIVE", 112, 2, FALSE, FALSE, FALSE >>,
    << "BVS", "CBM_65CE02", "RELATIVE_16", 115, UNKNOWN_CYCLE_COUNT, FALSE, FALSE, FALSE >>,
    << "CLE", "CBM_65CE02", "IMPLIED", 2, 2, FALSE, FALSE, FALSE >>,
    << "CLC", "BASE", "IMPLIED", 24, 2, FALSE, FALSE, FALSE >>,
    << "CLD", "BASE", "IMPLIED", 216, 2, FALSE, FALSE, FALSE >>,
    << "CLI", "BASE", "IMPLIED", 88, 2, FALSE, FALSE, FALSE >>,
    << "CLV", "BASE", "IMPLIED", 184, 2, FALSE, FALSE, FALSE >>,
    << "CMP", "BASE", "IMMEDIATE", 201, 1, FALSE, FALSE, FALSE >>,
    << "CMP", "BASE", "ZERO_PAGE", 197, 1, FALSE, FALSE, FALSE >>,
    << "CMP", "BASE", "ZERO_PAGE_X", 213, 1, FALSE, FALSE, FALSE >>,
    << "CMP", "CMOS", "ZP_IND", 210, 1, FALSE, FALSE, FALSE >>,
    << "CMP", "BASE", "ZP_X_IND", 193, 1, FALSE, FALSE, FALSE >>,
    << "CMP", "BASE", "ZP_IND_Y", 209, 1, TRUE, FALSE, FALSE >>,
    << "CMP", "BASE", "ABSOLUTE", 205, 1, FALSE, FALSE, FALSE >>,
    << "CMP", "BASE", "ABSOLUTE_X", 221, 1, TRUE, FALSE, FALSE >>,
    << "CMP", "BASE", "ABSOLUTE_Y", 217, 1, TRUE, FALSE, FALSE >>,
    << "COP", "WDC_16_BIT", "IMPLIED", 2, 7, FALSE, FALSE, FALSE >>,
    << "CPX", "BASE", "IMMEDIATE", 224, 1, FALSE, FALSE, FALSE >>,
    << "CPX", "BASE", "ZERO_PAGE", 228, 1, FALSE, FALSE, FALSE >>,
    << "CPX", "BASE", "ABSOLUTE", 236, 1, FALSE, FALSE, FALSE >>,
    << "CPY", "BASE", "IMMEDIATE", 192, 1, FALSE, FALSE, FALSE >>,
    << "CPY", "BASE", "ZERO_PAGE", 196, 1, FALSE, FALSE, FALSE >>,
    << "CPY", "BASE", "ABSOLUTE", 204, 1, FALSE, FALSE, FALSE >>,
    << "CPZ", "CBM_65CE02", "IMMEDIATE", 194, UNKNOWN_CYCLE_COUNT, FALSE, FALSE, FALSE >>,
    << "CPZ", "CBM_65CE02", "ZERO_PAGE", 212, UNKNOWN_CYCLE_COUNT, FALSE, FALSE, FALSE >>,
    << "CPZ", "CBM_65CE02", "ABSOLUTE", 220, UNKNOWN_CYCLE_COUNT, FALSE, FALSE, FALSE >>,
    << "DEC", "CMOS", "ACCUMULATOR", 58, 2, FALSE, FALSE, FALSE >>,
    << "DEC", "BASE", "ZERO_PAGE", 198, 3, FALSE, FALSE, FALSE >>,
    << "DEC", "BASE", "ZERO_PAGE_X", 214, 3, FALSE, FALSE, FALSE >>,
    << "DEC", "BASE", "ABSOLUTE", 206, 3, FALSE, FALSE, FALSE >>,
    << "DEC", "BASE", "ABSOLUTE_X", 222, 3, TRUE, TRUE, FALSE >>,
    << "DEW", "CBM_65CE02", "ZERO_PAGE", 195, UNKNOWN_CYCLE_COUNT, FALSE, FALSE, FALSE >>,
    << "DEX", "BASE", "IMPLIED", 202, 2, FALSE, FALSE, FALSE >>,
    << "DEY", "BASE", "IMPLIED", 136, 2, FALSE, FALSE, FALSE >>,
    << "DEZ", "CBM_65CE02", "IMPLIED", 59, UNKNOWN_CYCLE_COUNT, FALSE, FALSE, FALSE >>,
    << "EOR", "BASE", "IMMEDIATE", 73, 1, FALSE, FALSE, FALSE >>,
    << "EOR", "BASE", "ZERO_PAGE", 69, 1, FALSE, FALSE, FALSE >>,
    << "EOR", "BASE", "ZERO_PAGE_X", 85, 1, FALSE, FALSE, FALSE >>,
    << "EOR", "CMOS", "ZP_IND", 82, 1, FALSE, FALSE, FALSE >>,
    << "EOR", "BASE", "ZP_X_IND", 65, 1, FALSE, FALSE, FALSE >>,
    << "EOR", "BASE", "ZP_IND_Y", 81, 1, TRUE, FALSE, FALSE >>,
    << "EOR", "BASE", "ABSOLUTE", 77, 1, FALSE, FALSE, FALSE >>,
    << "EOR", "BASE", "ABSOLUTE_X", 93, 1, TRUE, FALSE, FALSE >>,
    << "EOR", "BASE", "ABSOLUTE_Y", 89, 1, TRUE, FALSE, FALSE >>,
    << "INC", "CMOS", "ACCUMULATOR", 26, 2, FALSE, FALSE, FALSE >>,
    << "INC", "BASE", "ZERO_PAGE", 230, 3, FALSE, FALSE, FALSE >>,
    << "INC", "BASE", "ZERO_PAGE_X", 246, 3, FALSE, FALSE, FALSE >>,
    << "INC", "BASE", "ABSOLUTE", 238, 3, FALSE, FALSE, FALSE >>,
    << "INC", "BASE", "ABSOLUTE_X", 254, 3, TRUE, TRUE, FALSE >>,
    << "INW", "CBM_65CE02", "ZERO_PAGE", 227, UNKNOWN_CYCLE_COUNT, FALSE, FALSE, FALSE >>,
    << "INX", "BASE", "IMPLIED", 232, 2, FALSE, FALSE, FALSE >>,
    << "INY", "BASE", "IMPLIED", 200, 2, FALSE, FALSE, FALSE >>,
    << "INZ", "CBM_65CE02", "IMPLIED", 27, UNKNOWN_CYCLE_COUNT, FALSE, FALSE, FALSE >>,
    << "JMP", "BASE", "ABSOLUTE", 76, 0, FALSE, FALSE, FALSE >>,
    << "JMP", "BASE", "ABSOLUTE_IND", 108, 0, FALSE, FALSE, TRUE >>,
    << "JMP", "CMOS", "ABS_X_IND", 124, 0, FALSE, FALSE, TRUE >>,
    << "JSR", "BASE", "ABSOLUTE", 32, 3, FALSE, FALSE, FALSE >>,
    << "JSR", "CBM_65CE02", "ABSOLUTE_IND", 34, UNKNOWN_CYCLE_COUNT, FALSE, FALSE, FALSE >>,
    << "JSR", "CBM_65CE02", "ABS_X_IND", 35, UNKNOWN_CYCLE_COUNT, FALSE, FALSE, FALSE >>,
    << "LDA", "BASE", "IMMEDIATE", 169, 1, FALSE, FALSE, FALSE >>,
    << "LDA", "BASE", "ZERO_PAGE", 165, 1, FALSE, FALSE, FALSE >>,
    << "LDA", "BASE", "ZERO_PAGE_X", 181, 1, FALSE, FALSE, FALSE >>,
    << "LDA", "CMOS", "ZP_IND", 178, 1, FALSE, FALSE, FALSE >>,
    << "LDA", "BASE", "ZP_X_IND", 161, 1, FALSE, FALSE, FALSE >>,
    << "LDA", "BASE", "ZP_IND_Y", 177, 1, TRUE, FALSE, FALSE >>,
    << "LDA", "BASE", "ABSOLUTE", 173, 1, FALSE, FALSE, FALSE >>,
    << "LDA", "BASE", "ABSOLUTE_X", 189, 1, TRUE, FALSE, FALSE >>,
    << "LDA", "BASE", "ABSOLUTE_Y", 185, 1, TRUE, FALSE, FALSE >>,
    << "LDA", "CBM_65CE02", "ST_VEC_IND_Y", 226, 1, FALSE, FALSE, FALSE >>,
    << "LDX", "BASE", "IMMEDIATE", 162, 1, FALSE, FALSE, FALSE >>,
    << "LDX", "BASE", "ZERO_PAGE", 166, 1, FALSE, FALSE, FALSE >>,
    << "LDX", "BASE", "ZERO_PAGE_Y", 182, 1, FALSE, FALSE, FALSE >>,
    << "LDX", "BASE", "ABSOLUTE", 174, 1, FALSE, FALSE, FALSE >>,
    << "LDX", "BASE", "ABSOLUTE_Y", 190, 1, TRUE, FALSE, FALSE >>,
    << "LDY", "BASE", "IMMEDIATE", 160, 1, FALSE, FALSE, FALSE >>,
    << "LDY", "BASE", "ZERO_PAGE", 164, 1, FALSE, FALSE, FALSE >>,
    << "LDY", "BASE", "ZERO_PAGE_X", 180, 1, FALSE, FALSE, FALSE >>,
    << "LDY", "BASE", "ABSOLUTE", 172, 1, FALSE, FALSE, FALSE >>,
    << "LDY", "BASE", "ABSOLUTE_X", 188, 1, TRUE, FALSE, FALSE >>,
    << "LDZ", "CBM_65CE02", "IMMEDIATE", 163, UNKNOWN_CYCLE_COUNT, FALSE, FALSE, FALSE >>,
    << "LDZ", "CBM_65CE02", "ABSOLUTE", 171, UNKNOWN_CYCLE_COUNT, FALSE, FALSE, FALSE >>,
    << "LDZ", "CBM_65CE02", "ABSOLUTE_X", 187, UNKNOWN_CYCLE_COUNT, FALSE, FALSE, FALSE >>,
    << "LSR", "BASE", "ACCUMULATOR", 74, 2, FALSE, FALSE, FALSE >>,
    << "LSR", "BASE", "ZERO_PAGE", 70, 3, FALSE, FALSE, FALSE >>,
    << "LSR", "BASE", "ZERO_PAGE_X", 86, 3, FALSE, FALSE, FALSE >>,
    << "LSR", "BASE", "ABSOLUTE", 78, 3, FALSE, FALSE, FALSE >>,
    << "LSR", "BASE", "ABSOLUTE_X", 94, 3, TRUE, TRUE, FALSE >>,
    << "NEG", "CBM_65CE02", "ACCUMULATOR", 66, UNKNOWN_CYCLE_COUNT, FALSE, FALSE, FALSE >>,
    << "NOP", "BASE", "IMPLIED", 234, 2, FALSE, FALSE, FALSE >>,
    << "ORA", "BASE", "IMMEDIATE", 9, 1, FALSE, FALSE, FALSE >>,
    << "ORA", "BASE", "ZERO_PAGE", 5, 1, FALSE, FALSE, FALSE >>,
    << "ORA", "BASE", "ZERO_PAGE_X", 21, 1, FALSE, FALSE, FALSE >>,
    << "ORA", "CMOS", "ZP_IND", 18, 1, FALSE, FALSE, FALSE >>,
    << "ORA", "BASE", "ZP_X_IND", 1, 1, FALSE, FALSE, FALSE >>,
    << "ORA", "BASE", "ZP_IND_Y", 17, 1, TRUE, FALSE, FALSE >>,
    << "ORA", "BASE", "ABSOLUTE", 13, 1, FALSE, FALSE, FALSE >>,
    << "ORA", "BASE", "ABSOLUTE_X", 29, 1, TRUE, FALSE, FALSE >>,
    << "ORA", "BASE", "ABSOLUTE_Y", 25, 1, TRUE, FALSE, FALSE >>,
    << "PHA", "BASE", "IMPLIED", 72, 3, FALSE, FALSE, FALSE >>,
    << "PHP", "BASE", "IMPLIED", 8, 3, FALSE, FALSE, FALSE >>,
    << "PHW", "CBM_65CE02", "IMMEDIATE", 244, UNKNOWN_CYCLE_COUNT, FALSE, FALSE, FALSE >>,
    << "PHW", "CBM_65CE02", "ABSOLUTE", 252, UNKNOWN_CYCLE_COUNT, FALSE, FALSE, FALSE >>,
    << "PHX", "CMOS", "IMPLIED", 218, 3, FALSE, FALSE, FALSE >>,
    << "PHY", "CMOS", "IMPLIED", 90, 3, FALSE, FALSE, FALSE >>,
    << "PHZ", "CBM_65CE02", "IMPLIED", 219, UNKNOWN_CYCLE_COUNT, FALSE, FALSE, FALSE >>,
    << "PLA", "BASE", "IMPLIED", 104, 4, FALSE, FALSE, FALSE >>,
    << "PLP", "BASE", "IMPLIED", 40, 4, FALSE, FALSE, FALSE >>,
    << "PLX", "CMOS", "IMPLIED", 250, 4, FALSE, FALSE, FALSE >>,
    << "PLY", "CMOS", "IMPLIED", 122, 4, FALSE, FALSE, FALSE >>,
    << "PLZ", "CBM_65CE02", "IMPLIED", 251, UNKNOWN_CYCLE_COUNT, FALSE, FALSE, FALSE >>,
    << "RMB", "ROCKWELL_BIT", "ZERO_PAGE", 7, 3, FALSE, FALSE, FALSE >>,
    << "ROL", "BASE", "ACCUMULATOR", 42, 2, FALSE, FALSE, FALSE >>,
    << "ROL", "BASE", "ZERO_PAGE", 38, 3, FALSE, FALSE, FALSE >>,
    << "ROL", "BASE", "ZERO_PAGE_X", 54, 3, FALSE, FALSE, FALSE >>,
    << "ROL", "BASE", "ABSOLUTE", 46, 3, FALSE, FALSE, FALSE >>,
    << "ROL", "BASE", "ABSOLUTE_X", 62, 3, TRUE, TRUE, FALSE >>,
    << "ROR", "BASE", "ACCUMULATOR", 106, 2, FALSE, FALSE, FALSE >>,
    << "ROR", "BASE", "ZERO_PAGE", 102, 3, FALSE, FALSE, FALSE >>,
    << "ROR", "BASE", "ZERO_PAGE_X", 118, 3, FALSE, FALSE, FALSE >>,
    << "ROR", "BASE", "ABSOLUTE", 110, 3, FALSE, FALSE, FALSE >>,
    << "ROR", "BASE", "ABSOLUTE_X", 126, 3, TRUE, TRUE, FALSE >>,
    << "ROW", "CBM_65CE02", "ABSOLUTE", 235, UNKNOWN_CYCLE_COUNT, FALSE, FALSE, FALSE >>,
    << "RTI", "BASE", "IMPLIED", 64, 6, FALSE, FALSE, FALSE >>,
    << "RTN", "CBM_65CE02", "IMMEDIATE", 98, UNKNOWN_CYCLE_COUNT, FALSE, FALSE, FALSE >>,
    << "RTS", "BASE", "IMPLIED", 96, 6, FALSE, FALSE, FALSE >>,
    << "SBC", "BASE", "IMMEDIATE", 233, 1, FALSE, FALSE, FALSE >>,
    << "SBC", "BASE", "ZERO_PAGE", 229, 1, FALSE, FALSE, FALSE >>,
    << "SBC", "BASE", "ZERO_PAGE_X", 245, 1, FALSE, FALSE, FALSE >>,
    << "SBC", "CMOS", "ZP_IND", 242, 1, FALSE, FALSE, FALSE >>,
    << "SBC", "BASE", "ZP_X_IND", 225, 1, FALSE, FALSE, FALSE >>,
    << "SBC", "BASE", "ZP_IND_Y", 241, 1, TRUE, FALSE, FALSE >>,
    << "SBC", "BASE", "ABSOLUTE", 237, 1, FALSE, FALSE, FALSE >>,
    << "SBC", "BASE", "ABSOLUTE_X", 253, 1, TRUE, FALSE, FALSE >>,
    << "SBC", "BASE", "ABSOLUTE_Y", 249, 1, TRUE, FALSE, FALSE >>,
    << "SEC", "BASE", "IMPLIED", 56, 2, FALSE, FALSE, FALSE >>,
    << "SED", "BASE", "IMPLIED", 248, 2, FALSE, FALSE, FALSE >>,
    << "SEE", "CBM_65CE02", "IMPLIED", 3, UNKNOWN_CYCLE_COUNT, FALSE, FALSE, FALSE >>,
    << "SEI", "BASE", "IMPLIED", 120, 2, FALSE, FALSE, FALSE >>,
    << "SMB", "ROCKWELL_BIT", "ZERO_PAGE", 135, 3, FALSE, FALSE, FALSE >>,
    << "STA", "BASE", "ZERO_PAGE", 133, 1, FALSE, FALSE, FALSE >>,
    << "STA", "BASE", "ZERO_PAGE_X", 149, 1, FALSE, FALSE, FALSE >>,
    << "STA", "CMOS", "ZP_IND", 146, 1, FALSE, FALSE, FALSE >>,
    << "STA", "BASE", "ZP_X_IND", 129, 1, FALSE, FALSE, FALSE >>,
    << "STA", "BASE", "ZP_IND_Y", 145, 2, FALSE, FALSE, FALSE >>,
    << "STA", "BASE", "ABSOLUTE", 141, 1, FALSE, FALSE, FALSE >>,
    << "STA", "BASE", "ABSOLUTE_X", 157, 2, FALSE, FALSE, FALSE >>,
    << "STA", "BASE", "ABSOLUTE_Y", 153, 2, FALSE, FALSE, FALSE >>,
    << "STA", "CBM_65CE02", "ST_VEC_IND_Y", 130, UNKNOWN_CYCLE_COUNT, FALSE, FALSE, FALSE >>,
    << "STP", "WDC_CMOS", "IMPLIED", 219, UNKNOWN_CYCLE_COUNT, FALSE, FALSE, FALSE >>,
    << "STX", "BASE", "ZERO_PAGE", 134, 1, FALSE, FALSE, FALSE >>,
    << "STX", "BASE", "ZERO_PAGE_Y", 150, 1, FALSE, FALSE, FALSE >>,
    << "STX", "BASE", "ABSOLUTE", 142, 1, FALSE, FALSE, FALSE >>,
    << "STX", "CBM_65CE02", "ABSOLUTE_Y", 155, UNKNOWN_CYCLE_COUNT, FALSE, FALSE, FALSE >>,
    << "STY", "BASE", "ZERO_PAGE", 132, 1, FALSE, FALSE, FALSE >>,
    << "STY", "BASE", "ZERO_PAGE_X", 148, 1, FALSE, FALSE, FALSE >>,
    << "STY", "BASE", "ABSOLUTE", 140, 1, FALSE, FALSE, FALSE >>,
    << "STY", "CBM_65CE02", "ABSOLUTE_X", 139, UNKNOWN_CYCLE_COUNT, FALSE, FALSE, FALSE >>,
    << "STZ", "CMOS", "ZERO_PAGE", 100, 1, FALSE, FALSE, FALSE >>,
    << "STZ", "CMOS", "ZERO_PAGE_X", 116, 1, FALSE, FALSE, FALSE >>,
    << "STZ", "CMOS", "ABSOLUTE", 156, 1, FALSE, FALSE, FALSE >>,
    << "STZ", "CMOS", "ABSOLUTE_X", 158, 2, FALSE, FALSE, FALSE >>,
    << "TAB", "CBM_65CE02", "IMPLIED", 91, UNKNOWN_CYCLE_COUNT, FALSE, FALSE, FALSE >>,
    << "TAX", "BASE", "IMPLIED", 170, 2, FALSE, FALSE, FALSE >>,
    << "TAY", "BASE", "IMPLIED", 168, 2, FALSE, FALSE, FALSE >>,
    << "TAZ", "CBM_65CE02", "IMPLIED", 75, UNKNOWN_CYCLE_COUNT, FALSE, FALSE, FALSE >>,
    << "TBA", "CBM_65CE02", "IMPLIED", 123, UNKNOWN_CYCLE_COUNT, FALSE, FALSE, FALSE >>,
    << "TRB", "CMOS", "ZERO_PAGE", 20, 3, FALSE, FALSE, FALSE >>,
    << "TRB", "CMOS", "ABSOLUTE", 28, 3, FALSE, FALSE, FALSE >>,
    << "TSB", "CMOS", "ZERO_PAGE", 4, 3, FALSE, FALSE, FALSE >>,
    << "TSB", "CMOS", "ABSOLUTE", 12, 3, FALSE, FALSE, FALSE >>,
    << "TSX", "BASE", "IMPLIED", 186, 2, FALSE, FALSE, FALSE >>,
    << "TSY", "CBM_65CE02", "IMPLIED", 11, UNKNOWN_CYCLE_COUNT, FALSE, FALSE, FALSE >>,
    << "TXA", "BASE", "IMPLIED", 138, 2, FALSE, FALSE, FALSE >>,
    << "TXS", "BASE", "IMPLIED", 154, 2, FALSE, FALSE, FALSE >>,
    << "TYA", "BASE", "IMPLIED", 152, 2, FALSE, FALSE, FALSE >>,
    << "TYS", "CBM_65CE02", "IMPLIED", 43, UNKNOWN_CYCLE_COUNT, FALSE, FALSE, FALSE >>,
    << "WAI", "WDC_CMOS", "IMPLIED", 203, UNKNOWN_CYCLE_COUNT, FALSE, FALSE, FALSE >>,
    << "TZA", "CBM_65CE02", "IMPLIED", 107, UNKNOWN_CYCLE_COUNT, FALSE, FALSE, FALSE >>,
    << "WDM", "WDC_16_BIT", "IMPLIED", 66, 2, FALSE, FALSE, FALSE >>
  >>

\* A record of the table as a struct InstructionSet::Info.
Info(t) == [ inst |-> t[1], set |-> t[2], mode |-> t[3], opcode |-> t[4],
             base_cycle_count |-> t[5], page_crossing_extra_cycle |-> t[6],
             nmos_extra_cycle_forced |-> t[7], cmos_extra_cycle |-> t[8] ]

\* The opcode slots the constructor's inner loop assigns for one record:
\* opcode + bm for bm = 0x00, 0x10 .. 0x70 for a ROCKWELL_BIT record, and
\* opcode alone for any other.
Slots(t) ==
    IF t[2] = "ROCKWELL_BIT" THEN { t[4] + 16 * n : n \in 0..7 } ELSE { t[4] }

\* the elements of a sequence
Range(seq) == { seq[i] : i \in DOMAIN seq }

\* The records of the table that the constructor stores in slot opcode for
\* the variant set sets: the loop skips a record whose set is not active.
Claimants(sets, opcode) ==
    { t \in Range(s_main_table) : t[2] \in sets /\ opcode \in Slots(t) }

\* m_by_opcode after a construction that did not throw, for the slots the
\* constructor assigned: slot opcode maps to the set of the records stored
\* there (one record), and a slot that no record claims has no entry.  The
\* array is never initialised, so such a slot keeps whatever the allocation
\* held, and get() decides what a lookup of it yields.
m_by_opcode(sets) ==
    LET assigned(claims) ==
          [ opcode \in { o \in 0..255 : claims[o] # {} } |->
              Info(CHOOSE t \in claims[opcode] : TRUE) ]
    IN  assigned([ o \in 0..255 |-> Claimants(sets, o) ])

by_opcode_6502   == m_by_opcode(CPU_6502)
by_opcode_R65C02 == m_by_opcode(CPU_R65C02)

\* What an unassigned slot can hold: a null pointer or anything else.
NullInfo == [ inst |-> "null" ]
WildInfo == [ inst |-> "wild" ]

\* InstructionSet::get(opcode): the possible values of m_by_opcode[opcode].
get(sets, opcode) ==
    LET lookup(table) == IF opcode \in DOMAIN table THEN { table[opcode] }
                         ELSE { NullInfo, WildInfo }
    IN  lookup(IF sets = CPU_6502 THEN by_opcode_6502
               ELSE IF sets = CPU_R65C02 THEN by_opcode_R65C02
               ELSE m_by_opcode(sets))

\* s_pal65_address_mode_suffixes[mode]
s_pal65_address_mode_suffixes(mode) ==
    CASE mode \in {"IMPLIED", "ZERO_PAGE", "ABSOLUTE", "RELATIVE", "ZP_RELATIVE",
                   "RELATIVE_16"}              -> ""
      [] mode = "ACCUMULATOR"                  -> "a"
      [] mode = "IMMEDIATE"                    -> "#"
      [] mode \in {"ZERO_PAGE_X", "ABSOLUTE_X"} -> "x"
      [] mode \in {"ZERO_PAGE_Y", "ABSOLUTE_Y"} -> "y"
      [] mode \in {"ZP_IND", "ABSOLUTE_IND"}    -> "@"
      [] mode \in {"ZP_X_IND", "ABS_X_IND"}     -> "x@"
      [] mode = "ZP_IND_Y"                     -> "@y"
      [] mode = "ST_VEC_IND_Y"                 -> "s@y"

\* InstructionSet::pal65_compatible_modes(m1, m2)
pal65_compatible_modes(m1, m2) ==
    \/ (m1 = "ZERO_PAGE" /\ m2 = "ABSOLUTE") \/ (m1 = "ABSOLUTE" /\ m2 = "ZERO_PAGE")
    \/ (m1 = "ZERO_PAGE_X" /\ m2 = "ABSOLUTE_X")
    \/ (m1 = "ABSOLUTE_X" /\ m2 = "ZERO_PAGE_X")
    \/ (m1 = "ZERO_PAGE_Y" /\ m2 = "ABSOLUTE_Y")
    \/ (m1 = "ABSOLUTE_Y" /\ m2 = "ZERO_PAGE_Y")

\* The contents of a slot of m_by_opcode: 0 for a null pointer, the index in
\* s_main_table of the record pointed to, or -1 for a pointer to no record.
NullSlot == 0
WildSlot == 0 - 1

\* InstructionSet::InstructionSet(sets) in storage whose slots garbage of
\* m_by_opcode do not hold a null pointer before the constructor runs.  The
\* loop over s_main_table is stated by its iterations: iteration i, of an
\* active record, finds a slot of its own not null when the slot is in
\* garbage or an earlier active record has it, and finds its PAL65 mnemonic
\* in m_by_mnemonic when an earlier active record has the same mnemonic and
\* suffix, the earliest of them being at(0).  The first iteration that finds
\* either throws, the opcode being tested first.  The result is the error
\* thrown ("none" when the loop ends) and m_by_opcode.
InstructionSet(sets, garbage) ==
    LET active == { i \in DOMAIN s_main_table : s_main_table[i][2] \in sets }
        pal65_mnemonic(i) == << s_main_table[i][1],
                                s_pal65_address_mode_suffixes(s_main_table[i][3]) >>
        slot_taken(i) ==
            \E o \in Slots(s_main_table[i]) :
               \/ o \in garbage
               \/ \E j \in active : j < i /\ o \in Slots(s_main_table[j])
        same_mnemonic(i) == { j \in active : j < i /\ pal65_mnemonic(j) = pal65_mnemonic(i) }
        at_0(i) == CHOOSE j \in same_mnemonic(i) : \A k \in same_mnemonic(i) : j <= k
        incompatible(i) ==
            /\ same_mnemonic(i) # {}
            /\ ~ pal65_compatible_modes(s_main_table[at_0(i)][3], s_main_table[i][3])
        throwing == { i \in active : slot_taken(i) \/ incompatible(i) }
        thrown == CHOOSE i \in throwing : \A k \in throwing : i <= k
        stored(o) == { i \in active : o \in Slots(s_main_table[i]) }
    IN  IF throwing # {}
        THEN [ error |-> IF slot_taken(thrown) THEN "duplicate opcode"
                         ELSE "duplicate PAL65 mnemonic",
               m_by_opcode |-> << >> ]
        ELSE [ error |-> "none",
               m_by_opcode |-> [ o \in 0..255 |->
                                   IF stored(o) # {} THEN CHOOSE i \in stored(o) : TRUE
                                   ELSE IF o \in garbage THEN WildSlot
                                   ELSE NullSlot ] ]

\* InstructionSet::address_mode_added_cycles(mode)
address_mode_added_cycles(mode) ==
    CASE mode = "IMPLIED"      -> 0
      [] mode = "ACCUMULATOR"  -> 0
      [] mode = "IMMEDIATE"    -> 1
      [] mode = "ZERO_PAGE"    -> 2
      [] mode = "ZERO_PAGE_X"  -> 3
      [] mode = "ZERO_PAGE_Y"  -> 3
      [] mode = "ZP_IND"       -> 4
      [] mode = "ZP_X_IND"     -> 5
      [] mode = "ZP_IND_Y"     -> 4
      [] mode = "ABSOLUTE"     -> 3
      [] mode = "ABSOLUTE_X"   -> 3
      [] mode = "ABSOLUTE_Y"   -> 3
      [] mode = "ABSOLUTE_IND" -> 5
      [] mode = "ABS_X_IND"    -> 5
      [] mode = "RELATIVE"     -> 0
      [] mode = "ZP_RELATIVE"  -> 2
      [] mode = "RELATIVE_16"  -> 2
      [] mode = "ST_VEC_IND_Y" -> 1

----------------------------------------------------------------------------
(* The CPU core (cpu6502.hh, cpu6502.cc) and the memory (memory.cc).       *)
(*                                                                         *)
(* The member functions of CPU6502 are operators on a record c that holds  *)
(* what they read and write:                                               *)
(*   c.r      registers (a, x, y, s and pc are std::uint16_t, p is         *)
(*            std::uint8_t, e is the emulation-mode flag)                  *)
(*   c.m      the memory, a function on the addresses holding a nonzero    *)
(*            byte                                                         *)
(*   c.halt   m_halt                                                       *)
(*   c.count, c.cycles   m_instruction_count and m_cycle_count             *)
(*   c.icc    m_instruction_cycle_count (std::uint8_t)                     *)
(*   c.v      the value returned by the latest read                        *)
(*   c.ea1, c.ea2   the effective addresses of the instruction             *)
(*   c.fault  a memory access threw std::out_of_range                      *)
(*   c.log    the memory accesses, stack operations and the calls of       *)
(*            branch() and halt() made, in order                           *)
(***************************************************************************)

\* CPU6502Registers::Flag
C  == 0
Z  == 1
I  == 2
D  == 3
B  == 4
P5 == 5
V  == 6
N  == 7

STACK_BASE_ADDRESS == 256     \* 0x0100
VECTOR_NMI         == 65530   \* 0xfffa
VECTOR_RESET       == 65532   \* 0xfffc
VECTOR_IRQ         == 65534   \* 0xfffe
MemorySize         == 65536   \* Memory::create(1ull<<16)

\* a CPU whose JMP (p) always increments the whole pointer, which C14 tells
\* from m_absolute_ind_fixed
absolute_ind_always_fixed(sets) == TRUE

\* a CPU whose decimal arithmetic is the CMOS one on every variant, which
\* C17 tells from m_bcd_cmos
bcd_always_cmos(sets) == TRUE

\* CPU6502::CPU6502: the four CMOS switches are all sets.test(CMOS)
m_cmos(sets)                     == "CMOS" \in sets
m_absolute_ind_fixed(sets)       == "CMOS" \in sets
m_interrupt_clears_decimal(sets) == "CMOS" \in sets
m_bcd_cmos(sets)                 == "CMOS" \in sets

\* CPU6502Registers::test(flag) on a value of p
test(p, flag) == Bit(p, flag) = 1

\* CPU6502Registers::set(flag, value) on a value of p
set(p, flag, value) ==
    IF value THEN (IF test(p, flag) THEN p ELSE p + 2 ^ flag)
             ELSE (IF test(p, flag) THEN p - 2 ^ flag ELSE p)

set_flag(c, flag, value) == [c EXCEPT !.r.p = set(@, flag, value)]

\* a set_n_z_for_result that sets N and leaves Z alone, which C13 tells from
\* set_n_z_for_result
set_n_for_result(c, result) ==
    set_flag(c, N, Bit(U8(result), 7) = 1)

\* CPU6502Registers::set_n_z_for_result(std::uint8_t result)
set_n_z_for_result(c, result) ==
    LET res == U8(result)
    IN  set_flag(set_flag(c, Z, res = 0), N, Bit(res, 7) = 1)

\* the content of memory cell addr (addr < MemorySize)
Peek(m, addr) == IF addr \in DOMAIN m THEN m[addr] ELSE 0

\* the memory with cell addr set to data
Store(m, addr, data) ==
    IF data = 0 THEN [ a \in DOMAIN m \ {addr} |-> m[a] ]
    ELSE [ a \in DOMAIN m \cup {addr} |-> IF a = addr THEN data ELSE m[a] ]

Logged(c, op, addr, data) ==
    [c EXCEPT !.log = Append(@, [op |-> op, addr |-> addr, data |-> data])]

\* Memory::read_8(addr): m_memory.at(addr) throws for addr >= size
read_8(c, addr) ==
    IF addr >= MemorySize
    THEN [Logged(c, "read", addr, 0) EXCEPT !.fault = TRUE, !.v = 0]
    ELSE [Logged(c, "read", addr, Peek(c.m, addr)) EXCEPT !.v = Peek(c.m, addr)]

\* Memory::read_16_le(addr): m_memory.at(addr) | (m_memory.at(addr + 1) << 8)
read_16_le(c, addr) ==
    LET c1 == read_8(c, addr)
        c2 == read_8(c1, addr + 1)
    IN  [c2 EXCEPT !.v = c1.v + 256 * c2.v]

\* Memory::write_8(addr, data): data is converted to std::uint8_t
write_8(c, addr, data) ==
    IF addr >= MemorySize
    THEN [Logged(c, "write", addr, U8(data)) EXCEPT !.fault = TRUE]
    ELSE [Logged(c, "write", addr, U8(data)) EXCEPT !.m = Store(@, addr, U8(data))]

\* CPU6502::stack_push(std::uint8_t byte)
stack_push(c, byte) ==
    LET addr == BitOr(STACK_BASE_ADDRESS, c.r.s)
        c1   == [c EXCEPT !.r.s = U16(c.r.s - 1) % 256]
    IN  write_8(Logged(c1, "push", addr, U8(byte)), addr, U8(byte))

\* CPU6502::stack_pop(): the byte popped is left in .v
stack_pop(c) ==
    LET c1   == [c EXCEPT !.r.s = U16(c.r.s + 1) % 256]
        addr == BitOr(STACK_BASE_ADDRESS, c1.r.s)
    IN  read_8(Logged(c1, "pop", addr, Peek(c1.m, addr)), addr)

\* CPU6502::halt(address)
halt(c, address) ==
    [Logged(c, "halt", address, 0) EXCEPT !.halt = TRUE]

\* address == static_cast<std::uint32_t>(v) for an address below 2^31 and an
\* int v: a negative v converts to a value of 2^32 + v, which is no address.
EqualsAsUint32(address, v) == v >= 0 /\ address = v

\* a branch that is charged one cycle wherever it goes, which C32 tells from
\* branch
branch_one_cycle(c, address) ==
    LET c1 == [Logged(c, "branch", address, 0) EXCEPT !.icc = U8(@ + 1)]
        c3 == IF EqualsAsUint32(address, c1.r.pc - 2) THEN halt(c1, address) ELSE c1
    IN  [c3 EXCEPT !.r.pc = U16(address)]

\* CPU6502::branch(address)
branch(c, address) ==
    LET c1 == [Logged(c, "branch", address, 0) EXCEPT !.icc = U8(@ + 1)]
        c2 == IF (c1.r.pc \div 256) # ((address \div 256) % 256)
              THEN [c1 EXCEPT !.icc = U8(@ + 1)] ELSE c1
        c3 == IF EqualsAsUint32(address, c2.r.pc - 2) THEN halt(c2, address) ELSE c2
    IN  [c3 EXCEPT !.r.pc = U16(address)]

\* a go_vector that pushes P with bit 4 clear whatever brk is: the interrupt
\* sequence of an IRQ taken for a BRK, which C8 tells from go_vector
go_vector_without_b(sets, c, vector, brk) ==
    LET c1 == IF vector = VECTOR_RESET
              THEN [c EXCEPT !.r.s = U16(c.r.s - 3) % 256]
              ELSE LET p1 == stack_push(c, c.r.pc \div 256)
                       p2 == stack_push(p1, p1.r.pc % 256)
                       p_value == IF p2.r.e
                                  THEN set(set(p2.r.p, P5, TRUE), B, FALSE)
                                  ELSE p2.r.p
                   IN  stack_push(p2, p_value)
        c2 == set_flag(c1, I, TRUE)
        c3 == IF m_interrupt_clears_decimal(sets) THEN set_flag(c2, D, FALSE) ELSE c2
        c4 == read_16_le(c3, vector)
        c5 == [c4 EXCEPT !.r.pc = c4.v]
    IN  IF c5.r.pc = 0 THEN [c5 EXCEPT !.halt = TRUE] ELSE c5

\* CPU6502::go_vector(vector, brk)
go_vector(sets, c, vector, brk) ==
    LET c1 == IF vector = VECTOR_RESET
              THEN [c EXCEPT !.r.s = U16(c.r.s - 3) % 256]
              ELSE LET p1 == stack_push(c, c.r.pc \div 256)
                       p2 == stack_push(p1, p1.r.pc % 256)
                       p_value == IF p2.r.e
                                  THEN set(set(p2.r.p, P5, TRUE), B, brk)
                                  ELSE p2.r.p
                   IN  stack_push(p2, p_value)
        c2 == set_flag(c1, I, TRUE)
        c3 == IF m_interrupt_clears_decimal(sets) THEN set_flag(c2, D, FALSE) ELSE c2
        c4 == read_16_le(c3, vector)
        c5 == [c4 EXCEPT !.r.pc = c4.v]
    IN  IF c5.r.pc = 0 THEN [c5 EXCEPT !.halt = TRUE] ELSE c5

\* registers.pc++ / registers.pc += n on the std::uint16_t pc
advance_pc(c, n) == [c EXCEPT !.r.pc = U16(@ + n)]

\* an instruction that is never charged one more cycle, which C18 tells from
\* add_cycle
add_no_cycle(c) == c

\* one more cycle for the instruction
add_cycle(c) == [c EXCEPT !.icc = U8(@ + 1)]

\* an index that never leaves the page of its base, which C23 tells from
\* PageDiffers
PageNeverDiffers(x, y) == FALSE

\* (x & 0xff00) != (y & 0xff00)
PageDiffers(x, y) == ((x \div 256) % 256) # ((y \div 256) % 256)

\* CPU6502::compute_effective_address(info, ea1, ea2); ea1 and ea2 start out
\* as whatever c holds, as the caller's locals are not initialised.  fetch_8
\* is read_8(registers.pc++), fetch_16 is read_16_le(registers.pc) followed
\* by registers.pc += 2; the operators that take b or w continue from the
\* CPU record after that fetch.
compute_effective_address(sets, c, info) ==
    LET mode == info.mode
        fetch_8(c0)  == advance_pc(read_8(c0, c0.r.pc), 1)
        fetch_16(c0) == advance_pc(read_16_le(c0, c0.r.pc), 2)
        \* ea1 = lo | (hi << 8), hi being the byte just read
        word(hi, lo) == [hi EXCEPT !.ea1 = lo + 256 * hi.v]
        \* the pointer in the zero-page cells temp1 and (temp1 + 1) & 0xff
        pointer_hi(lo, temp1) == word(read_8(lo, (temp1 + 1) % 256), lo.v)
        pointer(b, temp1) == pointer_hi(read_8(b, temp1), temp1)
        \* ea1 = base + index, with the cycle of a page crossing
        indexed(w, base, index, forced) ==
            IF forced \/ (info.page_crossing_extra_cycle
                          /\ PageDiffers(base + index, base))
            THEN add_cycle([w EXCEPT !.ea1 = base + index])
            ELSE [w EXCEPT !.ea1 = base + index]
        zero_page(b, index) == [b EXCEPT !.ea1 = (b.v + index) % 256]
        zero_page_x(b) == zero_page(b, b.r.x)
        zero_page_y(b) == zero_page(b, b.r.y)
        zp_ind(b) == pointer(b, b.v)
        zp_x_ind(b) == pointer(b, (b.v + b.r.x) % 256)
        zp_ind_y_2(p) == indexed(p, p.ea1, p.r.y, FALSE)
        absolute(w) == [w EXCEPT !.ea1 = w.v]
        absolute_x(w) ==
            indexed(w, w.v, w.r.x, ~ m_cmos(sets) /\ info.nmos_extra_cycle_forced)
        absolute_y(w) == indexed(w, w.v, w.r.y, FALSE)
        absolute_ind_hi(lo, temp1) ==
            word(read_8(lo, IF m_absolute_ind_fixed(sets)
                            THEN temp1 + 1
                            ELSE (temp1 \div 256) * 256 + ((temp1 + 1) % 256)),
                 lo.v)
        absolute_ind(w) == absolute_ind_hi(read_8(w, w.v), w.v)
        loaded(t) == [t EXCEPT !.ea1 = t.v]
        abs_x_ind(w) == loaded(read_16_le(w, w.v + w.r.x))
        relative_2(r) ==
            [r EXCEPT !.ea2 = ((IF Bit(r.v, 7) = 1 THEN r.v + 65280 ELSE r.v)
                               + r.r.pc) % 65536]
        relative(c0) == relative_2(fetch_8(c0))
        zp_relative(b) == relative([b EXCEPT !.ea1 = b.v])
        relative_16_2(r) == [r EXCEPT !.ea2 = (r.v + r.r.pc) % 65536]
        relative_16(c0) == relative_16_2(advance_pc(read_16_le(c0, c0.r.pc), 1))
        st_vec_ind_y(b) == loaded(read_16_le(b, b.v + 256 + b.r.s))
    IN
    CASE mode \in {"IMPLIED", "ACCUMULATOR"} -> c
      [] mode = "IMMEDIATE"    -> [advance_pc(c, 1) EXCEPT !.ea1 = c.r.pc]
      [] mode = "ZERO_PAGE"    -> zero_page(fetch_8(c), 0)
      [] mode = "ZERO_PAGE_X"  -> zero_page_x(fetch_8(c))
      [] mode = "ZERO_PAGE_Y"  -> zero_page_y(fetch_8(c))
      [] mode = "ZP_IND"       -> zp_ind(fetch_8(c))
      [] mode = "ZP_X_IND"     -> zp_x_ind(fetch_8(c))
      [] mode = "ZP_IND_Y"     -> zp_ind_y_2(zp_ind(fetch_8(c)))
      [] mode = "ABSOLUTE"     -> absolute(fetch_16(c))
      [] mode = "ABSOLUTE_X"   -> absolute_x(fetch_16(c))
      [] mode = "ABSOLUTE_Y"   -> absolute_y(fetch_16(c))
      [] mode = "ABSOLUTE_IND" -> absolute_ind(fetch_16(c))
      [] mode = "ABS_X_IND"    -> abs_x_ind(fetch_16(c))
      [] mode = "ZP_RELATIVE"  -> zp_relative(fetch_8(c))
      [] mode = "RELATIVE"     -> relative(c)
      [] mode = "RELATIVE_16"  -> relative_16(c)
      [] mode = "ST_VEC_IND_Y" -> st_vec_ind_y(fetch_8(c))

----------------------------------------------------------------------------
(* The instruction handlers, CPU6502::execute_XXX(info, ea1, ea2).         *)

\* conversion of an int to std::int8_t
S8(v) == IF v % 256 >= 128 THEN (v % 256) - 256 ELSE v % 256

set_a(c, value) == [c EXCEPT !.r.a = value]

\* bcd_digit_sign_extend(std::uint8_t digit)
bcd_digit_sign_extend(digit) ==
    S8(U8(digit) + (IF Bit(U8(digit), 3) = 1 THEN 240 ELSE 0))

\* an ADC that leaves the carry flag out of the sum, which C15 tells from
\* execute_ADC
execute_ADC_without_carry_in(sets, c, info) ==
    LET c1 == read_8(c, c.ea1)
        sum == U16(c1.r.a + c1.v)
        n1 == set_n_z_for_result(c1, sum % 256)
        n2 == set_flag(n1, C, sum > 255)
    IN  set_a(n2, sum % 256)

\* an ADC that adds in binary whatever D is, which C16 tells from execute_ADC
execute_ADC_in_binary(sets, c, info) ==
    LET c1 == read_8(c, c.ea1)
        carry_in == IF test(c1.r.p, C) THEN 1 ELSE 0
        sum == U16(c1.r.a + c1.v + carry_in)
        carry_7 == U8((c1.r.a % 128) + (c1.v % 128) + carry_in) >= 128
        n1 == set_n_z_for_result(c1, sum % 256)
        n2 == set_flag(n1, C, sum > 255)
        n3 == set_flag(n2, V, (sum > 255) # carry_7)
    IN  set_a(n3, sum % 256)

execute_ADC(sets, c, info) ==
    LET c1 == read_8(c, c.ea1)
        operand == c1.v
        a == c1.r.a
        carry_in == IF test(c1.r.p, C) THEN 1 ELSE 0
        binary_sum == U16(a + operand + carry_in)
        binary_result_7_bit == U8((a % 128) + (operand % 128) + carry_in)
        binary_carry_8 == (binary_sum \div 256) # 0
        binary_carry_7 == (binary_result_7_bit \div 128) # 0
        binary_result == binary_sum % 256
        c2 == set_flag(c1, Z, binary_result = 0)
    IN
    IF ~ test(c2.r.p, D)
    THEN LET n1 == set_n_z_for_result(c2, binary_result)
             n2 == set_flag(n1, C, binary_carry_8)
             n3 == set_flag(n2, V, binary_carry_8 # binary_carry_7)
         IN  set_a(n3, binary_result)
    ELSE LET lsd0 == U8((a % 16) + (operand % 16) + carry_in)
             msd0 == U8((a \div 16) + (operand \div 16))
             bcd_carry_4 == lsd0 > 9
             bcd_lsd == IF bcd_carry_4 THEN U8(lsd0 + 6) ELSE lsd0
             msd1 == IF bcd_carry_4 THEN U8(msd0 + 1) ELSE msd0
             bcd_partial_result == U8(msd1 * 16 + (bcd_lsd % 16))
             d1 == IF ~ m_bcd_cmos(sets)
                   THEN set_flag(set_flag(c2, N, Bit(bcd_partial_result, 7) = 1),
                                 Z, binary_result = 0)
                   ELSE c2
             bcd_signed_msd == S8(bcd_digit_sign_extend(a \div 16)
                                  + bcd_digit_sign_extend(operand \div 16)
                                  + (IF bcd_carry_4 THEN 1 ELSE 0))
             d2 == set_flag(d1, V, bcd_signed_msd < -8 \/ bcd_signed_msd > 7)
             bcd_msd == IF msd1 > 9 THEN U8(msd1 + 6) ELSE msd1
             d3 == set_flag(d2, C, bcd_msd > 15)
             bcd_result == U8(bcd_msd * 16 + (bcd_lsd % 16))
             d4 == set_a(d3, bcd_result)
         IN  IF m_bcd_cmos(sets)
             THEN add_cycle(set_flag(set_flag(d4, N, Bit(bcd_result, 7) = 1),
                                     Z, bcd_result = 0))
             ELSE d4

execute_AND(c) ==
    LET c1 == read_8(c, c.ea1)
        c2 == set_a(c1, BitAnd(c1.r.a, c1.v))
    IN  set_n_z_for_result(c2, c2.r.a)

\* The read-modify-write handlers share one shape: the byte comes from A in
\* ACCUMULATOR mode and from memory at ea1 otherwise, and the result goes
\* back to where the byte came from.
rmw_fetch(c, info) ==
    IF info.mode = "ACCUMULATOR" THEN [c EXCEPT !.v = U8(c.r.a)] ELSE read_8(c, c.ea1)

rmw_store(c, info, byte) ==
    IF info.mode = "ACCUMULATOR" THEN set_a(c, byte) ELSE write_8(c, c.ea1, byte)

execute_ASL(c, info) ==
    LET c1 == rmw_fetch(c, info)
        c2 == set_flag(c1, C, Bit(c1.v, 7) = 1)
        byte == U8(c1.v * 2)
    IN  rmw_store(set_n_z_for_result(c2, byte), info, byte)

\* bit_num = (info->opcode >> 4) & 7
bit_num(info) == (info.opcode \div 16) % 8

execute_BBR(c, info) ==
    LET c1 == read_8(c, c.ea1)
    IN  IF Bit(c1.v, bit_num(info)) = 0 THEN branch(c1, c1.ea2) ELSE c1

execute_BBS(c, info) ==
    LET c1 == read_8(c, c.ea1)
    IN  IF Bit(c1.v, bit_num(info)) = 1 THEN branch(c1, c1.ea2) ELSE c1

\* execute_BCC, BCS, BEQ, BMI, BNE, BPL, BVC, BVS and BRA: branch(ea2) when
\* the flag the instruction tests has the value it asks for.
branch_taken(inst, p) ==
    CASE inst = "BCC" -> ~ test(p, C)
      [] inst = "BCS" -> test(p, C)
      [] inst = "BEQ" -> test(p, Z)
      [] inst = "BMI" -> test(p, N)
      [] inst = "BNE" -> ~ test(p, Z)
      [] inst = "BPL" -> ~ test(p, N)
      [] inst = "BRA" -> TRUE
      [] inst = "BVC" -> ~ test(p, V)
      [] inst = "BVS" -> test(p, V)

execute_Bxx(c, info) ==
    IF branch_taken(info.inst, c.r.p) THEN branch(c, c.ea2) ELSE c

execute_BIT(c, info) ==
    LET c1 == read_8(c, c.ea1)
        operand == c1.v
        result == U8(BitAnd(operand, c1.r.a))
        c2 == set_flag(c1, Z, result = 0)
    IN  IF info.mode # "IMMEDIATE"
        THEN set_flag(set_flag(c2, N, Bit(operand, 7) = 1), V, Bit(operand, 6) = 1)
        ELSE c2

\* registers.e is set by the constructor and no handler changes it, so the
\* vector is VECTOR_IRQ; VECTOR_NATIVE_BRK belongs to the 16-bit parts.
execute_BRK(sets, c) ==
    go_vector(sets, advance_pc(c, 1), VECTOR_IRQ, TRUE)

\* execute_CLC, CLD, CLI, CLV, SEC, SED, SEI: set one flag to a constant
execute_flag(c, inst) ==
    CASE inst = "CLC" -> set_flag(c, C, FALSE)
      [] inst = "CLD" -> set_flag(c, D, FALSE)
      [] inst = "CLI" -> set_flag(c, I, FALSE)
      [] inst = "CLV" -> set_flag(c, V, FALSE)
      [] inst = "SEC" -> set_flag(c, C, TRUE)
      [] inst = "SED" -> set_flag(c, D, TRUE)
      [] inst = "SEI" -> set_flag(c, I, TRUE)

\* execute_CMP, CPX, CPY: reg is registers.a, .x or .y
compare(c, reg) ==
    LET c1 == read_8(c, c.ea1)
        operand == 255 - c1.v
        result == U16(reg + operand + 1)
        carry == Bit(result, 8) = 1
    IN  set_flag(set_n_z_for_result(c1, result % 256), C, carry)

execute_CMP(c) == compare(c, c.r.a)
execute_CPX(c) == compare(c, c.r.x)
execute_CPY(c) == compare(c, c.r.y)

execute_DEC(c, info) ==
    LET c1 == rmw_fetch(c, info)
        byte == U8(c1.v - 1)
    IN  rmw_store(set_n_z_for_result(c1, byte), info, byte)

execute_INC(c, info) ==
    LET c1 == rmw_fetch(c, info)
        byte == U8(c1.v + 1)
    IN  rmw_store(set_n_z_for_result(c1, byte), info, byte)

execute_DEX(c) ==
    LET c1 == [c EXCEPT !.r.x = (c.r.x - 1) % 256] IN set_n_z_for_result(c1, c1.r.x)

execute_DEY(c) ==
    LET c1 == [c EXCEPT !.r.y = (c.r.y - 1) % 256] IN set_n_z_for_result(c1, c1.r.y)

execute_INX(c) ==
    LET c1 == [c EXCEPT !.r.x = (c.r.x + 1) % 256] IN set_n_z_for_result(c1, c1.r.x)

execute_INY(c) ==
    LET c1 == [c EXCEPT !.r.y = (c.r.y + 1) % 256] IN set_n_z_for_result(c1, c1.r.y)

execute_EOR(c) ==
    LET c1 == read_8(c, c.ea1)
        c2 == set_a(c1, BitXor(c1.r.a, c1.v))
    IN  set_n_z_for_result(c2, c2.r.a)

execute_JMP(c) ==
    LET c1 == IF EqualsAsUint32(c.ea1, c.r.pc - 3) THEN halt(c, c.ea1) ELSE c
    IN  [c1 EXCEPT !.r.pc = U16(c.ea1)]

execute_JSR(c) ==
    LET ret_addr == U16(c.r.pc - 1)
        c1 == stack_push(c, ret_addr \div 256)
        c2 == stack_push(c1, ret_addr % 256)
    IN  [c2 EXCEPT !.r.pc = U16(c.ea1)]

execute_LDA(c) ==
    LET c1 == read_8(c, c.ea1)
        c2 == set_a(c1, c1.v)
    IN  set_n_z_for_result(c2, c2.r.a)

execute_LDX(c) ==
    LET c1 == read_8(c, c.ea1)
        c2 == [c1 EXCEPT !.r.x = c1.v]
    IN  set_n_z_for_result(c2, c2.r.x)

execute_LDY(c) ==
    LET c1 == read_8(c, c.ea1)
        c2 == [c1 EXCEPT !.r.y = c1.v]
    IN  set_n_z_for_result(c2, c2.r.y)

execute_LSR(c, info) ==
    LET c1 == rmw_fetch(c, info)
        c2 == set_flag(c1, C, Bit(c1.v, 0) = 1)
        byte == c1.v \div 2
    IN  rmw_store(set_n_z_for_result(c2, byte), info, byte)

execute_NOP(c) == c

execute_ORA(c) ==
    LET c1 == read_8(c, c.ea1)
        c2 == set_a(c1, BitOr(c1.r.a, c1.v))
    IN  set_n_z_for_result(c2, c2.r.a)

execute_PHA(c) == stack_push(c, c.r.a)
execute_PHP(c) == stack_push(c, BitOr(c.r.p, 48))
execute_PHX(c) == stack_push(c, c.r.x)
execute_PHY(c) == stack_push(c, c.r.y)

execute_PLA(c) ==
    LET c1 == stack_pop(c)
        c2 == set_a(c1, c1.v)
    IN  set_n_z_for_result(c2, c2.r.a)

execute_PLX(c) ==
    LET c1 == stack_pop(c)
        c2 == [c1 EXCEPT !.r.x = c1.v]
    IN  set_n_z_for_result(c2, c2.r.x)

execute_PLY(c) ==
    LET c1 == stack_pop(c)
        c2 == [c1 EXCEPT !.r.y = c1.v]
    IN  set_n_z_for_result(c2, c2.r.y)

\* a PLP that takes P as popped, without forcing B and P5, which C11 tells
\* from execute_PLP
execute_PLP_as_popped(c) ==
    LET c1 == stack_pop(c)
    IN  [c1 EXCEPT !.r.p = c1.v]

execute_PLP(c) ==
    LET c1 == stack_pop(c)
    IN  [c1 EXCEPT !.r.p = IF c1.r.e THEN set(set(c1.v, B, TRUE), P5, TRUE) ELSE c1.v]

execute_RMB(c, info) ==
    LET c1 == read_8(c, c.ea1)
        operand == IF Bit(c1.v, bit_num(info)) = 1
                   THEN c1.v - 2 ^ bit_num(info) ELSE c1.v
    IN  write_8(c1, c1.ea1, operand)

execute_ROL(c, info) ==
    LET c1 == rmw_fetch(c, info)
        new_carry == Bit(c1.v, 7) = 1
        byte == U8(c1.v * 2) + (IF test(c1.r.p, C) THEN 1 ELSE 0)
        c2 == set_flag(c1, C, new_carry)
    IN  rmw_store(set_n_z_for_result(c2, byte), info, byte)

execute_ROR(c, info) ==
    LET c1 == rmw_fetch(c, info)
        new_carry == Bit(c1.v, 0) = 1
        byte == (c1.v \div 2) + (IF test(c1.r.p, C) THEN 128 ELSE 0)
        c2 == set_flag(c1, C, new_carry)
    IN  rmw_store(set_n_z_for_result(c2, byte), info, byte)

execute_RTI(c) ==
    LET c1 == stack_pop(c)
        c2 == [c1 EXCEPT !.r.p = IF c1.r.e THEN set(set(c1.v, B, TRUE), P5, TRUE)
                                           ELSE c1.v]
        lo == stack_pop(c2)
        hi == stack_pop(lo)
    IN  [hi EXCEPT !.r.pc = lo.v + 256 * hi.v]

execute_RTS(c) ==
    LET lo == stack_pop(c)
        hi == stack_pop(lo)
    IN  [hi EXCEPT !.r.pc = U16(lo.v + 256 * hi.v + 1)]

\* an SBC that subtracts in binary whatever D is, which C19 tells from
\* execute_SBC
execute_SBC_in_binary(sets, c, info) ==
    LET c1 == read_8(c, c.ea1)
        operand == 255 - c1.v
        carry_in == IF test(c1.r.p, C) THEN 1 ELSE 0
        sum == U16(c1.r.a + operand + carry_in)
        carry_7 == U8((c1.r.a % 128) + (operand % 128) + carry_in) >= 128
        n1 == set_n_z_for_result(c1, sum % 256)
        n2 == set_flag(n1, C, Bit(sum, 8) = 1)
        n3 == set_flag(n2, V, (Bit(sum, 8) = 1) # carry_7)
    IN  set_a(n3, sum % 256)

execute_SBC(sets, c, info) ==
    LET c1 == read_8(c, c.ea1)
        operand == 255 - c1.v
        a == c1.r.a
        carry_in == IF test(c1.r.p, C) THEN 1 ELSE 0
        sum == U16(a + operand + carry_in)
        result_7_bit == U8((a % 128) + (operand % 128) + carry_in)
        carry_8 == Bit(sum, 8) = 1
        carry_7 == Bit(result_7_bit, 7) = 1
        result == sum % 256
        c2 == set_n_z_for_result(c1, result)
        c3 == set_flag(c2, C, carry_8)
        c4 == set_flag(c3, V, carry_8 # carry_7)
    IN
    IF ~ test(c4.r.p, D)
    THEN set_a(c4, result)
    ELSE LET result_4_bit == U8((a % 16) + (operand % 16) + carry_in)
             carry_4 == (result_4_bit \div 16) # 0
             r1 == IF carry_4 THEN result
                   ELSE IF m_bcd_cmos(sets) THEN (result + 250) % 256
                   ELSE (result \div 16) * 16 + ((result + 250) % 16)
             r2 == IF carry_8 THEN r1 ELSE (r1 + 160) % 256
             d1 == IF m_bcd_cmos(sets)
                   THEN add_cycle(set_n_z_for_result(c4, r2)) ELSE c4
         IN  set_a(d1, r2)

execute_SMB(c, info) ==
    LET c1 == read_8(c, c.ea1)
        operand == IF Bit(c1.v, bit_num(info)) = 1
                   THEN c1.v ELSE c1.v + 2 ^ bit_num(info)
    IN  write_8(c1, c1.ea1, operand)

execute_STA(c) == write_8(c, c.ea1, c.r.a)
execute_STX(c) == write_8(c, c.ea1, c.r.x)
execute_STY(c) == write_8(c, c.ea1, c.r.y)
execute_STZ(c) == write_8(c, c.ea1, 0)

execute_TAX(c) ==
    LET c1 == [c EXCEPT !.r.x = c.r.a] IN set_n_z_for_result(c1, c1.r.x)

execute_TAY(c) ==
    LET c1 == [c EXCEPT !.r.y = c.r.a] IN set_n_z_for_result(c1, c1.r.y)

execute_TSX(c) ==
    LET c1 == [c EXCEPT !.r.x = c.r.s] IN set_n_z_for_result(c1, c1.r.x)

execute_TXA(c) ==
    LET c1 == [c EXCEPT !.r.a = c.r.x] IN set_n_z_for_result(c1, c1.r.a)

execute_TYA(c) ==
    LET c1 == [c EXCEPT !.r.a = c.r.y] IN set_n_z_for_result(c1, c1.r.a)

execute_TXS(c) == [c EXCEPT !.r.s = c.r.x]

execute_TRB(c) ==
    LET c1 == read_8(c, c.ea1)
        operand == c1.v
        result == BitAnd(operand, 255 - (c1.r.a % 256))
        c2 == set_flag(c1, Z, BitAnd(c1.r.a, operand) = 0)
    IN  write_8(c2, c2.ea1, result)

execute_TSB(c) ==
    LET c1 == read_8(c, c.ea1)
        operand == c1.v
        result == U8(BitOr(operand, c1.r.a))
        c2 == set_flag(c1, Z, BitAnd(c1.r.a, operand) = 0)
    IN  write_8(c2, c2.ea1, result)

\* The instructions whose entry of s_execute_inst_fn_ptrs is a handler; every
\* other entry of the array is nullptr.
HandledInsts ==
    { "ADC", "AND", "ASL", "BBR", "BBS", "BCC", "BCS", "BEQ", "BIT", "BMI",
      "BNE", "BPL", "BRA", "BRK", "BVC", "BVS", "CLC", "CLD", "CLI", "CLV",
      "CMP", "CPX", "CPY", "DEC", "DEX", "DEY", "EOR", "INC", "INX", "INY",
      "JMP", "JSR", "LDA", "LDX", "LDY", "LSR", "NOP", "ORA", "PHA", "PHP",
      "PHX", "PHY", "PLA", "PLP", "PLX", "PLY", "RMB", "ROL", "ROR", "RTI",
      "RTS", "SBC", "SEC", "SED", "SEI", "SMB", "STA", "STX", "STY", "STZ",
      "TAX", "TAY", "TRB", "TSB", "TSX", "TXA", "TXS", "TYA" }

\* (this->*s_execute_inst_fn_ptrs[info->inst])(info, ea1, ea2)
s_execute_inst_fn_ptrs(sets, c, info) ==
    LET inst == info.inst IN
    CASE inst = "ADC" -> execute_ADC(sets, c, info)
      [] inst = "AND" -> execute_AND(c)
      [] inst = "ASL" -> execute_ASL(c, info)
      [] inst = "BBR" -> execute_BBR(c, info)
      [] inst = "BBS" -> execute_BBS(c, info)
      [] inst \in {"BCC", "BCS", "BEQ", "BMI", "BNE", "BPL", "BRA", "BVC", "BVS"}
                      -> execute_Bxx(c, info)
      [] inst = "BIT" -> execute_BIT(c, info)
      [] inst = "BRK" -> execute_BRK(sets, c)
      [] inst \in {"CLC", "CLD", "CLI", "CLV", "SEC", "SED", "SEI"}
                      -> execute_flag(c, inst)
      [] inst = "CMP" -> execute_CMP(c)
      [] inst = "CPX" -> execute_CPX(c)
      [] inst = "CPY" -> execute_CPY(c)
      [] inst = "DEC" -> execute_DEC(c, info)
      [] inst = "DEX" -> execute_DEX(c)
      [] inst = "DEY" -> execute_DEY(c)
      [] inst = "EOR" -> execute_EOR(c)
      [] inst = "INC" -> execute_INC(c, info)
      [] inst = "INX" -> execute_INX(c)
      [] inst = "INY" -> execute_INY(c)
      [] inst = "JMP" -> execute_JMP(c)
      [] inst = "JSR" -> execute_JSR(c)
      [] inst = "LDA" -> execute_LDA(c)
      [] inst = "LDX" -> execute_LDX(c)
      [] inst = "LDY" -> execute_LDY(c)
      [] inst = "LSR" -> execute_LSR(c, info)
      [] inst = "NOP" -> execute_NOP(c)
      [] inst = "ORA" -> execute_ORA(c)
      [] inst = "PHA" -> execute_PHA(c)
      [] inst = "PHP" -> execute_PHP(c)
      [] inst = "PHX" -> execute_PHX(c)
      [] inst = "PHY" -> execute_PHY(c)
      [] inst = "PLA" -> execute_PLA(c)
      [] inst = "PLP" -> execute_PLP(c)
      [] inst = "PLX" -> execute_PLX(c)
      [] inst = "PLY" -> execute_PLY(c)
      [] inst = "RMB" -> execute_RMB(c, info)
      [] inst = "ROL" -> execute_ROL(c, info)
      [] inst = "ROR" -> execute_ROR(c, info)
      [] inst = "RTI" -> execute_RTI(c)
      [] inst = "RTS" -> execute_RTS(c)
      [] inst = "SBC" -> execute_SBC(sets, c, info)
      [] inst = "SMB" -> execute_SMB(c, info)
      [] inst = "STA" -> execute_STA(c)
      [] inst = "STX" -> execute_STX(c)
      [] inst = "STY" -> execute_STY(c)
      [] inst = "STZ" -> execute_STZ(c)
      [] inst = "TAX" -> execute_TAX(c)
      [] inst = "TAY" -> execute_TAY(c)
      [] inst = "TRB" -> execute_TRB(c)
      [] inst = "TSB" -> execute_TSB(c)
      [] inst = "TSX" -> execute_TSX(c)
      [] inst = "TXA" -> execute_TXA(c)
      [] inst = "TXS" -> execute_TXS(c)
      [] inst = "TYA" -> execute_TYA(c)

----------------------------------------------------------------------------
(* The character devices (apex.cc, apex_console_device_posix.cc,           *)
(* apex_printer_device.cc, apex_file_byte_device.cc).                      *)
(*                                                                         *)
(* A device method is an operator on the record dv of the devices' state   *)
(* and the accumulator a; it yields [dv, a, ok], ok being the bool the     *)
(* method returns.  g is the content of a local the method reads without   *)
(* having written it.                                                      *)
(***************************************************************************)

EOF_CHARACTER == 26    \* 0x1a
CR == 13               \* '\r'
LF == 10               \* '\n'

\* registers.a = c for a plain char c holding byte b, on a build whose plain
\* char is signed or unsigned
CharToA(b, char_signed) == IF char_signed /\ b >= 128 THEN 65280 + b ELSE b

Result(dv, a, ok) == [dv |-> dv, a |-> a, ok |-> ok]

\* ApexCharacterDevice::open_for_input, open_for_output, close (the defaults)
character_device_default(dv, a) == Result(dv, a, TRUE)

\* ApexNullDevice
null_input_byte(dv, a)  == Result(dv, EOF_CHARACTER, TRUE)
null_output_byte(dv, a) == Result(dv, a, TRUE)

\* ApexConsoleDevice::input_byte: std::cin.read(&c, 1) leaves c alone when
\* the stream has no byte left.
console_input_byte(dv, a, g, char_signed) ==
    LET has == dv.stdin # << >>
        c0  == IF has THEN Head(dv.stdin) ELSE g
        c   == IF c0 = LF THEN CR ELSE c0
        dv1 == IF has THEN [dv EXCEPT !.stdin = Tail(@)] ELSE dv
    IN  Result(dv1, CharToA(c, char_signed), TRUE)

\* ApexConsoleDevice::output_byte
console_output_byte(dv, a) ==
    LET c == U8(a) IN
    IF dv.m_prev_out_was_cr
    THEN IF c = LF THEN Result(dv, a, TRUE)
         ELSE Result([dv EXCEPT !.m_prev_out_was_cr = (c = CR),
                                !.stdout = Append(@, c)], a, TRUE)
    ELSE IF c = CR
         THEN Result([dv EXCEPT !.m_prev_out_was_cr = TRUE,
                                !.stdout = Append(@, LF)], a, TRUE)
         ELSE Result([dv EXCEPT !.stdout = Append(@, c)], a, TRUE)

\* ApexPrinterDevice
printer_open_for_input(dv, a)  == Result(dv, a, FALSE)
printer_open_for_output(dv, a) == Result([dv EXCEPT !.printer_output_open = TRUE], a, TRUE)
printer_input_byte(dv, a)      == Result(dv, EOF_CHARACTER, FALSE)
printer_close(dv, a)           == Result([dv EXCEPT !.printer_output_open = FALSE], a, TRUE)

\* a write to an std::ofstream reaches the file only when the file is open
FileWrite(is_open, contents, c) == IF is_open THEN Append(contents, c) ELSE contents

printer_output_byte(dv, a) ==
    IF ~ dv.printer_output_open THEN Result(dv, a, FALSE)
    ELSE LET c == IF U8(a) = CR THEN LF ELSE U8(a)
         IN  Result([dv EXCEPT !.printer_file =
                                  FileWrite(dv.printer_is_open, @, c)], a, TRUE)

\* ApexFileByteDevice.  The input std::ifstream is in_is_open, in_data (the
\* bytes of the file), in_pos (the read position), in_eofbit and in_failbit.
\* seekg(0) clears eofbit and then, unless the stream has failed, seeks,
\* which fails on a stream that has no file.
file_open_for_input(dv, a) ==
    LET d1 == [dv EXCEPT !.in_eofbit = FALSE]
        d2 == IF d1.in_failbit THEN d1
              ELSE IF d1.in_is_open THEN [d1 EXCEPT !.in_pos = 0]
              ELSE [d1 EXCEPT !.in_failbit = TRUE]
    IN  Result([d2 EXCEPT !.file_input_open = TRUE, !.m_input_at_eof = FALSE], a, TRUE)

file_open_for_output(dv, a) ==
    Result([dv EXCEPT !.file_output_open = TRUE], a, TRUE)

\* read(&c, 1) on a stream that is not good sets failbit and leaves c alone;
\* on a good stream with no byte left it sets eofbit and failbit.
file_input_byte(dv, a, g) ==
    IF ~ dv.file_input_open THEN Result(dv, a, FALSE)
    ELSE IF dv.m_input_at_eof THEN Result(dv, EOF_CHARACTER, TRUE)
    ELSE
      LET good == ~ dv.in_eofbit /\ ~ dv.in_failbit
          has  == good /\ dv.in_is_open /\ dv.in_pos < Len(dv.in_data)
          d1   == IF has THEN [dv EXCEPT !.in_pos = @ + 1]
                  ELSE IF good THEN [dv EXCEPT !.in_eofbit = TRUE, !.in_failbit = TRUE]
                  ELSE [dv EXCEPT !.in_failbit = TRUE]
          c0   == IF has THEN dv.in_data[dv.in_pos + 1] ELSE g
          c    == IF ~ dv.m_input_binary_mode /\ c0 = LF THEN CR ELSE c0
      IN  IF d1.in_eofbit THEN Result(d1, EOF_CHARACTER, TRUE)
          ELSE Result(d1, c, TRUE)

file_output_byte(dv, a) ==
    IF ~ dv.file_output_open THEN Result(dv, a, FALSE)
    ELSE LET c == IF ~ dv.m_output_binary_mode /\ U8(a) = CR THEN LF ELSE U8(a)
         IN  Result([dv EXCEPT !.out_file = FileWrite(dv.out_is_open, @, c)], a, TRUE)

file_close(dv, a) ==
    Result([dv EXCEPT !.file_input_open = FALSE, !.file_output_open = FALSE], a, TRUE)

----------------------------------------------------------------------------
(* The Apex system-call layer (apex.hh, apex.cc).                          *)
(*                                                                         *)
(* A handler is an operator on the CPU record c and the devices' state dv; *)
(* it yields [c, dv, halt, crash, calls]: halt is the bool the handler     *)
(* returns, crash says that it called through a pointer that is no device, *)
(* and calls lists the device methods it invoked with their results.       *)
(***************************************************************************)

SYS_PAGE_ADDRESS == 48896    \* 0xbf00
VSTART  == 3                 \* 0x03
LINIDX  == 90                \* 0x5a
NOWDEV  == 92                \* 0x5c
LINPTR  == 97                \* 0x61
KRENTR  == 208               \* 0xd0
KSAVER  == 211               \* 0xd3
KRELOD  == 214               \* 0xd6
KHAND   == 217               \* 0xd9
KSCAN   == 220               \* 0xdc
KRESTD  == 223               \* 0xdf
KREAD   == 226               \* 0xe2
KWRITE  == 229               \* 0xe5
VECTOR_START == SYS_PAGE_ADDRESS + KRENTR
VECTOR_END   == SYS_PAGE_ADDRESS + KWRITE + 3
MAX_CHAR_DEVICE == 8

\* m_character_devices as main installs it: the console as devices 0 and 1,
\* the printer as 2, the file device as 3, the null device as 7.  Entries 4,
\* 5 and 6 stay null.  An index of 8 or more is outside the array, and what
\* is read there is a null pointer or anything else.
m_character_devices(nowdev) ==
    CASE nowdev \in {0, 1} -> {"console"}
      [] nowdev = 2        -> {"printer"}
      [] nowdev = 3        -> {"file"}
      [] nowdev = 7        -> {"nulldev"}
      [] nowdev \in 4..6   -> {"null"}
      [] nowdev >= MAX_CHAR_DEVICE -> {"null", "wild"}

\* the virtual call m_character_devices[nowdev]->method(registers)
device_call(device, method, dv, a, g, char_signed) ==
    CASE method = "open_for_input" ->
            IF device = "printer" THEN printer_open_for_input(dv, a)
            ELSE IF device = "file" THEN file_open_for_input(dv, a)
            ELSE character_device_default(dv, a)
      [] method = "open_for_output" ->
            IF device = "printer" THEN printer_open_for_output(dv, a)
            ELSE IF device = "file" THEN file_open_for_output(dv, a)
            ELSE character_device_default(dv, a)
      [] method = "input_byte" ->
            IF device = "console" THEN console_input_byte(dv, a, g, char_signed)
            ELSE IF device = "printer" THEN printer_input_byte(dv, a)
            ELSE IF device = "file" THEN file_input_byte(dv, a, g)
            ELSE null_input_byte(dv, a)
      [] method = "output_byte" ->
            IF device = "console" THEN console_output_byte(dv, a)
            ELSE IF device = "printer" THEN printer_output_byte(dv, a)
            ELSE IF device = "file" THEN file_output_byte(dv, a)
            ELSE null_output_byte(dv, a)
      [] method = "close" ->
            IF device = "printer" THEN printer_close(dv, a)
            ELSE IF device = "file" THEN file_close(dv, a)
            ELSE character_device_default(dv, a)
      [] method = "input_byte_available" -> Result(dv, a, FALSE)

Outcome(c, dv, h, crash, calls) ==
    [c |-> c, dv |-> dv, halt |-> h, crash |-> crash, calls |-> calls]

\* the device method that KHAND function code x selects, "" for a code that
\* is no case of the switch
khand_method(x) ==
    CASE x = 0  -> "open_for_input"
      [] x = 3  -> "open_for_output"
      [] x = 6  -> "input_byte"
      [] x = 9  -> "output_byte"
      [] x = 12 -> "close"
      [] x = 15 -> "input_byte_available"
      [] OTHER  -> ""

\* a khand that halts the emulator when the device method fails, which C6
\* tells from khand
khand_failure_halts(c, dv, device, g, char_signed) ==
    LET function == U8(c.r.x)
        c1 == read_8(c, SYS_PAGE_ADDRESS + NOWDEV)
        nowdev == c1.v
        method == khand_method(function)
        bad == Outcome(c1, dv, TRUE, FALSE, << >>)
    IN  IF device = "null" THEN bad
        ELSE IF method = "" THEN bad
        ELSE IF function = 15 /\ nowdev > 1 THEN bad
        ELSE IF device = "wild" THEN Outcome(c1, dv, FALSE, TRUE, << >>)
        ELSE LET r  == device_call(device, method, dv, c1.r.a, g, char_signed)
                 c2 == set_flag(set_a(c1, r.a), C, ~ r.ok)
             IN  Outcome(c2, r.dv, ~ r.ok, FALSE,
                         << [device |-> nowdev, method |-> method, ok |-> r.ok] >>)

\* Apex::khand(registers); device is the value read from
\* m_character_devices[nowdev]
khand(c, dv, device, g, char_signed) ==
    LET function == U8(c.r.x)
        c1 == read_8(c, SYS_PAGE_ADDRESS + NOWDEV)
        nowdev == c1.v
        method == khand_method(function)
        bad == Outcome(c1, dv, TRUE, FALSE, << >>)
    IN  IF device = "null" THEN bad
        ELSE IF method = "" THEN bad
        ELSE IF function = 15 /\ nowdev > 1 THEN bad
        ELSE IF device = "wild" THEN Outcome(c1, dv, FALSE, TRUE, << >>)
        ELSE LET r  == device_call(device, method, dv, c1.r.a, g, char_signed)
                 c2 == set_flag(set_a(c1, r.a), C, ~ r.ok)
             IN  Outcome(c2, r.dv, FALSE, FALSE,
                         << [device |-> nowdev, method |-> method, ok |-> r.ok] >>)

\* Apex::krentr, ksaver, krelod, kscan, kread, kwrite
apex_exit(c, dv) == Outcome(c, dv, TRUE, FALSE, << >>)

\* a KRESTD that leaves C as it finds it, which C30 tells from krestd
krestd_keeping_carry(c, dv) == Outcome(c, dv, FALSE, FALSE, << >>)

\* Apex::krestd
krestd(c, dv) == Outcome(set_flag(c, C, FALSE), dv, FALSE, FALSE, << >>)

\* a dispatch that takes an address inside an entry for the entry, which C38
\* tells from vector_exec
vector_exec_by_entry(c, dv, device, g, char_signed) ==
    LET offset == (c.r.pc - SYS_PAGE_ADDRESS) - ((c.r.pc - VECTOR_START) % 3) IN
    CASE offset \in {KRENTR, KSAVER, KRELOD, KSCAN, KREAD, KWRITE} -> apex_exit(c, dv)
      [] offset = KHAND  -> khand(c, dv, device, g, char_signed)
      [] offset = KRESTD -> krestd(c, dv)
      [] OTHER           -> Outcome(c, dv, TRUE, FALSE, << >>)

\* Apex::vector_exec(registers)
vector_exec(c, dv, device, g, char_signed) ==
    LET offset == c.r.pc - SYS_PAGE_ADDRESS IN
    CASE offset \in {KRENTR, KSAVER, KRELOD, KSCAN, KREAD, KWRITE} -> apex_exit(c, dv)
      [] offset = KHAND  -> khand(c, dv, device, g, char_signed)
      [] offset = KRESTD -> krestd(c, dv)
      [] OTHER           -> Outcome(c, dv, TRUE, FALSE, << >>)

\* Apex::init()
apex_init(m) ==
    Store(Store(m, SYS_PAGE_ADDRESS + LINIDX, 255), SYS_PAGE_ADDRESS + LINPTR, 255)

----------------------------------------------------------------------------
(* CPU6502::execute_instruction and the execution loop of main (ibex.cc).  *)

\* CPU6502::execute_instruction() from the point where get() returned a
\* record: the cycles of the record, ++registers.pc, the effective address,
\* the handler, the counters.  The bool it returns is c.halt of the result.
execute_instruction(sets, c, info) ==
    LET cycles(c0) ==
            [c0 EXCEPT !.icc =
                U8(U8(info.base_cycle_count + address_mode_added_cycles(info.mode))
                   + (IF m_cmos(sets) /\ info.cmos_extra_cycle THEN 1 ELSE 0))]
        counted(c5) == [c5 EXCEPT !.count = @ + 1, !.cycles = @ + c5.icc]
    IN  counted(s_execute_inst_fn_ptrs(sets,
                  compute_effective_address(sets, advance_pc(cycles(c), 1), info),
                  info))

\* CPU6502::execute_rts()
execute_rts(c) == execute_RTS(c)

\* the CPU record of the current state
Cpu ==
    [ r |-> registers, m |-> m_memory, halt |-> m_halt,
      count |-> m_instruction_count, cycles |-> m_cycle_count,
      icc |-> 0, v |-> 0, ea1 |-> 0, ea2 |-> 0, fault |-> FALSE, log |-> << >> ]

\* the part of the state that an iteration of the loop can change
Snapshot ==
    [ registers |-> registers, m_memory |-> m_memory, m_halt |-> m_halt,
      m_instruction_count |-> m_instruction_count,
      m_cycle_count |-> m_cycle_count, devices |-> devices ]

\* (pc >= Apex::VECTOR_START) && (pc < Apex::VECTOR_END)
InApexBand(pc) == pc >= VECTOR_START /\ pc < VECTOR_END

\* What the iteration did: kind is "instruction", "undefined" (get() gave a
\* null pointer), "apex", "finish", or, for an iteration that ended the
\* process abnormally, "fault" (an uncaught std::out_of_range) or "wild" (a
\* call or a read through a pointer that points to nothing).
Observed(kind, opcode, info, c, calls) ==
    [ kind |-> kind, pc |-> registers.pc, opcode |-> opcode, info |-> info,
      ea1 |-> c.ea1, ea2 |-> c.ea2, icc |-> c.icc, log |-> c.log,
      calls |-> calls, pre |-> Snapshot ]

\* the process dies inside the iteration: nothing of it is observable later
Abort(kind, opcode, info, c) ==
    /\ phase' = "aborted"
    /\ history' = Append(history, Observed(kind, opcode, info, c, << >>))
    /\ UNCHANGED << registers, m_memory, m_halt, m_instruction_count,
                    m_cycle_count, m_sets, devices, plain_char_is_signed,
                    run, exit_code >>

\* the CPU's part of the state after an operation that returned
Commit(c) ==
    /\ registers' = c.r
    /\ m_memory' = c.m
    /\ m_halt' = c.halt
    /\ m_instruction_count' = c.count
    /\ m_cycle_count' = c.cycles

\* One iteration of main's loop with pc outside the Apex vectors:
\*   halt = cpu_sp->execute_instruction();  run &= ! halt;
\* fetched continues from the CPU record after the read of the opcode,
\* executed from the record the handler leaves.
ExecuteInstruction ==
    LET executed(opcode, info, c) ==
            IF c.fault
            THEN Abort("fault", opcode, info, c)
            ELSE /\ Commit(c)
                 /\ run' = ~ c.halt
                 /\ history' = Append(history,
                                      Observed("instruction", opcode, info, c, << >>))
                 /\ UNCHANGED << m_sets, devices, plain_char_is_signed,
                                 phase, exit_code >>
        fetched(c0) ==
            \E info \in get(m_sets, c0.v) :
              IF info.inst = "null"
              THEN /\ run' = FALSE
                   /\ history' = Append(history,
                                        Observed("undefined", c0.v, info, c0, << >>))
                   /\ UNCHANGED << registers, m_memory, m_halt, m_instruction_count,
                                   m_cycle_count, m_sets, devices,
                                   plain_char_is_signed, phase, exit_code >>
              ELSE IF info.inst \notin HandledInsts
              THEN Abort("wild", c0.v, info, c0)
              ELSE executed(c0.v, info, execute_instruction(m_sets, c0, info))
    IN  /\ phase = "running"
        /\ run
        /\ ~ InApexBand(registers.pc)
        /\ m_instruction_count < MaxInstructions
        /\ fetched(read_8(Cpu, registers.pc))

\* the bytes an uninitialised char can be found to hold
IndeterminateBytes == {0, 10, 65, 128, 255}

\* One iteration of main's loop with pc inside the Apex vectors:
\*   halt = apex_sp->vector_exec(registers);  cpu_sp->execute_rts();
\*   run &= ! halt;
ApexDispatch ==
    LET returned(o, c) ==
            IF o.crash
            THEN Abort("wild", 0, NullInfo, o.c)
            ELSE /\ Commit(c)
                 /\ devices' = o.dv
                 /\ run' = ~ o.halt
                 /\ history' = Append(history, Observed("apex", 0, NullInfo, c, o.calls))
                 /\ UNCHANGED << m_sets, plain_char_is_signed, phase, exit_code >>
        dispatched(o) == returned(o, execute_rts(o.c))
    IN  /\ phase = "running"
        /\ run
        /\ InApexBand(registers.pc)
        /\ Len(devices.stdout) < MaxOutput
        /\ \E device \in m_character_devices(Peek(m_memory, SYS_PAGE_ADDRESS + NOWDEV)),
              g \in IndeterminateBytes :
             dispatched(vector_exec(Cpu, devices, device, g, plain_char_is_signed))

\* an end of main that runs finish() twice, which C31 tells from Finish
finish_twice ==
    /\ phase = "running"
    /\ ~ run
    /\ phase' = "exited"
    /\ exit_code' = 0
    /\ history' = Append(Append(history,
                                Observed("finish", 0, NullInfo, Cpu, << >>)),
                         Observed("finish", 0, NullInfo, Cpu, << >>))
    /\ UNCHANGED << registers, m_memory, m_halt, m_instruction_count,
                    m_cycle_count, m_sets, devices, plain_char_is_signed, run >>

\* The end of main once the loop is left:  finish();  return 0;
Finish ==
    /\ phase = "running"
    /\ ~ run
    /\ phase' = "exited"
    /\ exit_code' = 0
    /\ history' = Append(history, Observed("finish", 0, NullInfo, Cpu, << >>))
    /\ UNCHANGED << registers, m_memory, m_halt, m_instruction_count,
                    m_cycle_count, m_sets, devices, plain_char_is_signed, run >>

----------------------------------------------------------------------------
(* The start of main: the command line, the executable and the streams.    *)

Lo(w) == w % 256
Hi(w) == (w \div 256) % 256

\* the bytes seq laid out from address addr on
Bytes(addr, seq) ==
    [ a \in { addr + i - 1 : i \in 1..Len(seq) } \cap (0..65535) |-> seq[a - addr + 1] ]

\* main's execution_address and load_address for a raw binary
execution_address == 1024      \* 0x0400
load_address      == 0

\* The raw executable that holds the cells given and zero elsewhere: its
\* length, and its nonzero bytes by offset.
RawFile(cells) ==
    [ len   |-> IF DOMAIN cells = {} THEN 0
                ELSE 1 + CHOOSE x \in DOMAIN cells : \A y \in DOMAIN cells : y <= x,
      bytes |-> [ a \in { x \in DOMAIN cells : cells[x] # 0 } |-> cells[a] ] ]

\* Memory::load_raw_bin(object_filename, load_address) for load_address = 0
\* and a file of at most MemorySize bytes: every byte of the file is stored.
load_raw_bin(m, file) ==
    [ a \in { x \in DOMAIN m : x >= load_address + file.len } \cup DOMAIN file.bytes |->
        IF a \in DOMAIN file.bytes THEN file.bytes[a] ELSE m[a] ]

\* One run of the emulator: option -c, the cells of the raw executable,
\* the bytes on standard input, the build's plain char, options -p, -i (with
\* the bytes of the input file) and -o.
Run(cmos, cells) ==
    [ cmos |-> cmos, cells |-> cells, stdin |-> << >>, char_signed |-> TRUE,
      printer_fn |-> FALSE, input_fn |-> FALSE, in_data |-> << >>,
      output_fn |-> FALSE ]

\* the members of the character devices and their streams after main has
\* created and installed the devices
InitialDevices(sc) ==
    [ stdin |-> sc.stdin, stdout |-> << >>, m_prev_out_was_cr |-> FALSE,
      printer_output_open |-> FALSE, printer_is_open |-> sc.printer_fn,
      printer_file |-> << >>,
      file_input_open |-> FALSE, m_input_at_eof |-> FALSE,
      m_input_binary_mode |-> FALSE, in_is_open |-> sc.input_fn,
      in_data |-> sc.in_data, in_pos |-> 0, in_eofbit |-> FALSE,
      in_failbit |-> FALSE,
      file_output_open |-> FALSE, m_output_binary_mode |-> FALSE,
      out_is_open |-> sc.output_fn, out_file |-> << >> ]

\* A program: prefix at the execution address, then seq at address a, which
\* the prefix reaches by a JMP unless seq follows it directly.
Prog(prefix, a, seq) ==
    Bytes(execution_address,
          prefix \o (IF a = execution_address + Len(prefix) THEN << >>
                     ELSE << 76, Lo(a), Hi(a) >>))
    @@ Bytes(a, seq)

\* JMP to the address a of the JMP itself: the way a program stops
Stop(a) == << 76, Lo(a), Hi(a) >>

\* the address that follows the prefix
After(prefix) == execution_address + Len(prefix)

\* LDX #6 ; JSR KHAND ; TAX ; TXS : S is set from a byte read from the console
StackFromConsole == << 162, 6, 32, 217, 191, 170, 154 >>

\* JMP absolute, JMP (indirect) and JMP (absolute,X) at address a with target
\* t, a up to the last addresses of memory
JumpRuns ==
    UNION { UNION { {
        Run(cmos, Prog(<< >>, a, << 76, Lo(t), Hi(t) >>)),
        Run(cmos, Prog(<< >>, a, << 108, 16, 0 >>)
                  @@ Bytes(16, << Lo(t), Hi(t) >>)),
        Run(cmos, Prog(<< >>, a, << 108, 255, 18 >>)
                  @@ Bytes(4863, << Lo(t), Hi(t) >>) @@ Bytes(4608, << Hi(t) >>)),
        Run(cmos, Prog(<< 162, 4 >>, IF a = 1024 THEN 1026 ELSE a, << 124, 32, 0 >>)
                  @@ Bytes(36, << Lo(IF a = 1024 /\ t = a THEN 1026 ELSE t),
                                  Hi(IF a = 1024 /\ t = a THEN 1026 ELSE t) >>))
      } : t \in {a, 1024, 1056} } : a \in {1024, 65533, 65534}, cmos \in BOOLEAN }

\* a byte that some catalog has no record for, at the execution address, after
\* two loads, or in the last cell of memory
UndefinedRuns ==
    { Run(cmos, Prog(prefix, IF last THEN 65535 ELSE After(prefix),
                     << opcode, 234, 234 >>)) :
        cmos \in BOOLEAN, opcode \in {2, 3, 15, 124, 128, 203, 219, 255},
        prefix \in { << >>, << 169, 5, 162, 7 >> }, last \in BOOLEAN }

\* the conditional branches and BRA after a prefix that sets the flags, with
\* offsets to the branch itself (0xfe), around it and away from it
BranchRuns ==
    { Run(cmos, Prog(prefix, IF last THEN 65534 ELSE After(prefix),
                     << opcode, offset >>) @@ Bytes(16, << 64 >>)) :
        cmos \in BOOLEAN,
        opcode \in {16, 48, 80, 112, 144, 176, 208, 240, 128},
        offset \in {254, 0, 253, 2, 252},
        prefix \in { << >>, << 56 >>, << 169, 0 >>, << 169, 128 >>, << 36, 16 >> },
        last \in BOOLEAN }

\* BBRn and BBSn on the zero-page byte at 0x10, with offsets to the
\* instruction itself (0xfd), to its second byte (0xfe) and away from it
BitBranchRuns ==
    { Run(TRUE, Prog(<< >>, a, << opcode, 16, offset >>) @@ Bytes(16, << byte >>)) :
        opcode \in {15, 31, 127, 143, 159, 255},
        byte \in {0, 1, 2, 128, 255},
        offset \in {253, 254, 0, 5},
        a \in {1024, 65533} }

\* LDX #s ; TXS ; JSR or JMP to an address in or next to the Apex vectors ;
\* then the program stops
ApexRuns ==
    { Run(FALSE, Prog(<< 162, s, 154, op, Lo(target), Hi(target) >>, 1030, Stop(1030))) :
        s \in {255, 0, 1, 128}, op \in {32, 76}, target \in 49103..49128 }

\* LDA #nowdev ; STA NOWDEV ; LDA #ch ; LDX #fn1 ; JSR KHAND ; LDX #fn2 ;
\* JSR KHAND ; then the program stops
KhandProgram(nowdev, ch, fn1, fn2) ==
    Prog(<< 169, nowdev, 141, 92, 191, 169, ch, 162, fn1, 32, 217, 191,
            162, fn2, 32, 217, 191 >>, 1041, Stop(1041))

\* the streams and files a run is started with
Environments ==
    { [ stdin |-> << >>, char_signed |-> TRUE, printer_fn |-> FALSE,
        input_fn |-> FALSE, in_data |-> << >>, output_fn |-> FALSE ],
      [ stdin |-> << 128, 65 >>, char_signed |-> TRUE, printer_fn |-> TRUE,
        input_fn |-> TRUE, in_data |-> << 65, 10 >>, output_fn |-> TRUE ],
      [ stdin |-> << 128, 65 >>, char_signed |-> FALSE, printer_fn |-> TRUE,
        input_fn |-> TRUE, in_data |-> << 65, 10 >>, output_fn |-> TRUE ],
      [ stdin |-> << 10 >>, char_signed |-> TRUE, printer_fn |-> FALSE,
        input_fn |-> TRUE, in_data |-> << >>, output_fn |-> FALSE ] }

In(env, sc) ==
    [ sc EXCEPT !.stdin = env.stdin, !.char_signed = env.char_signed,
                 !.printer_fn = env.printer_fn, !.input_fn = env.input_fn,
                 !.in_data = env.in_data, !.output_fn = env.output_fn ]

KhandRuns ==
    { In(env, Run(FALSE, KhandProgram(nowdev, ch, fn1, fn2))) :
        env \in Environments,
        nowdev \in {0, 1, 2, 3, 4, 7, 8, 255},
        ch \in {72, 13},
        fn1 \in {0, 3, 6, 9, 12, 15, 1},
        fn2 \in {6, 9} }

\* a prefix that sets S and some flags, then BRK at address a with the IRQ
\* vector pointing to handler h (an RTI, or a load and an RTI) or to 0
BrkPrefixes ==
    { << 162, s, 154 >> \o flags :
        s \in {255, 0, 1, 2, 128}, flags \in { << >>, << 248 >>, << 56 >>, << 248, 56 >> } }
    \cup { StackFromConsole, StackFromConsole \o << 248 >> }

BrkRuns ==
    { In(env, Run(cmos, Prog(prefix, After(prefix),
                             << 0, 234 >> \o Stop(After(prefix) + 2))
                        @@ Bytes(65534, << Lo(h), Hi(h) >>)
                        @@ Bytes(1280, handler))) :
        env \in { e \in Environments : e.stdin # << >> /\ Head(e.stdin) = 128 },
        cmos \in BOOLEAN, prefix \in BrkPrefixes, h \in {0, 1280},
        handler \in { << 64 >>, << 169, 0, 56, 64 >> } }
    \cup
    { Run(cmos, cells) :
        cmos \in BOOLEAN,
        cells \in { Prog(<< >>, 65533, << 0, 0, 5 >>) @@ Bytes(1280, << 64 >>),
                    Prog(<< >>, 65534, << 0, 5 >>) @@ Bytes(1280, << 64 >>),
                    Prog(<< >>, 65535, << 0 >>) @@ Bytes(65534, << 16 >>)
                      @@ Bytes(16, << 64 >>) } }

\* a prefix that sets S and A, then a push and a pull, then the program stops
StackPrefixes ==
    { << 162, s, 154, 169, v >> : s \in {255, 0, 1, 128}, v \in {0, 66, 128, 255} }
    \cup { StackFromConsole \o << 169, v >> : v \in {66, 255} }

StackRuns ==
    { In(env, Run(cmos, Prog(prefix \o body, After(prefix \o body),
                             Stop(After(prefix \o body))))) :
        env \in { e \in Environments : e.stdin # << >> /\ Head(e.stdin) = 128 },
        cmos \in BOOLEAN, prefix \in StackPrefixes,
        body \in { << 72, 169, 0, 104 >>, << 8, 40 >>, << 72, 40 >>,
                   << 218, 162, 0, 250 >>, << 90, 160, 0, 122 >> } }

\* LDA #v ; PHA ; PHA ; PHA ; RTI : an RTI that pops the bytes v, v, v
RtiRuns ==
    { Run(cmos, Bytes(execution_address, << 169, v, 72, 72, 72, 64 >>)) :
        cmos \in BOOLEAN, v \in {0, 66, 207, 255} }

\* the instructions that set N and Z from their result, and TXS, with an
\* immediate or zero-page operand w; the last six are of the CMOS variants
FlagOps(w) ==
    << << 169, w >>, << 162, w >>, << 160, w >>, << 41, w >>, << 9, w >>,
       << 73, w >>, << 10 >>, << 74 >>, << 42 >>, << 106 >>, << 6, 16 >>,
       << 70, 16 >>, << 38, 16 >>, << 102, 16 >>, << 230, 16 >>, << 198, 16 >>,
       << 232 >>, << 200 >>, << 202 >>, << 136 >>, << 170 >>, << 168 >>,
       << 138 >>, << 152 >>, << 186 >>, << 154 >>, << 72, 169, w, 104 >>,
       << 154, 162, w, 186 >>,
       << 26 >>, << 58 >>, << 218, 162, w, 250 >>, << 90, 160, w, 122 >>,
       << 37, 16 >>, << 5, 16 >> >>

\* CLC or SEC ; LDA #v ; LDX #v ; LDY #v ; one of FlagOps with the byte w at
\* 0x0010 ; the program stops
FlagRuns ==
    UNION { { LET program == << carry, 169, v, 162, v, 160, v >> \o FlagOps(w)[k]
              IN  Run(cmos, Prog(program, After(program), Stop(After(program)))
                            @@ Bytes(16, << w >>)) :
                carry \in {24, 56}, v \in {0, 1, 127, 128, 255},
                w \in {0, 1, 127, 128, 255},
                k \in { i \in 1..34 : cmos \/ i \notin 29..32 } } :
            cmos \in BOOLEAN }

\* JMP (p) for a pointer p in the middle of a page, in the last byte of a
\* page and in the last byte of memory; the bytes that follow the pointer and
\* the bytes at the start of its page differ, and a program that stops is at
\* each address the JMP can reach
IndirectRuns ==
    { Run(cmos, Bytes(execution_address, << 108, Lo(p), Hi(p) >>)
                @@ Bytes(p, << 52 >>)
                @@ Bytes((p + 1) % MemorySize, << 6 >>)
                @@ Bytes((p \div 256) * 256, << 5 >>)
                @@ Bytes(1332, Stop(1332)) @@ Bytes(1588, Stop(1588))) :
        cmos \in BOOLEAN, p \in {4656, 4863, 65535} }

\* RMBn $10 and SMBn $10 for n in 0..7, on CMOS; then the program stops
RockwellRuns ==
    { Run(TRUE, Prog(<< >>, execution_address, << base + 16 * n, 16 >>)
                @@ Bytes(16, << byte >>)) :
        base \in {7, 135}, n \in 0..7, byte \in {0, 90, 165, 255} }

\* LDX #9 ; then LDA #b ; JSR KHAND for each of four bytes b, on the console
\* (NOWDEV = 0) ; then the program stops
ConsoleRuns ==
    { LET program == << 162, 9, 169, b1, 32, 217, 191, 169, b2, 32, 217, 191,
                        169, b3, 32, 217, 191, 169, b4, 32, 217, 191 >>
      IN  Run(FALSE, Prog(program, After(program), Stop(After(program)))) :
        b1 \in {CR, LF, 65}, b2 \in {CR, LF, 65}, b3 \in {CR, LF, 65},
        b4 \in {CR, LF, 65} }

\* LDA #3 ; STA NOWDEV ; then LDX #fn ; JSR KHAND for each of four function
\* codes (open for input or input byte), on the file device with an input file
\* of zero, one or two bytes ; then the program stops
FileRuns ==
    { LET program == << 169, 3, 141, 92, 191, 162, f1, 32, 217, 191,
                        162, f2, 32, 217, 191, 162, f3, 32, 217, 191,
                        162, f4, 32, 217, 191 >>
      IN  [ Run(FALSE, Prog(program, After(program), Stop(After(program))))
              EXCEPT !.input_fn = TRUE, !.in_data = data ] :
        f1 \in {0, 6}, f2 \in {0, 6}, f3 \in {0, 6}, f4 \in {0, 6},
        data \in { << >>, << 65 >>, << 65, 10 >> } }

\* LDX #i ; LDY #i ; then one indexed instruction on the base 0x12F0: LDA
\* abs,X, LDA abs,Y, LDX abs,Y, STA abs,X, INC abs,X, ASL abs,X, ROR abs,X,
\* or LDA ($20),Y and STA ($20),Y with ($20) = 0x12F0 ; then the program
\* stops.  The index stays in the page of the base or leaves it.
CycleRuns ==
    { LET prefix == << 162, i, 160, i >> \o op
      IN  Run(cmos, Prog(prefix, After(prefix), Stop(After(prefix)))
                    @@ Bytes(32, << 240, 18 >>)) :
        cmos \in BOOLEAN, i \in {0, 15, 16, 255},
        op \in { << 189, 240, 18 >>, << 185, 240, 18 >>, << 190, 240, 18 >>,
                 << 157, 240, 18 >>, << 254, 240, 18 >>, << 30, 240, 18 >>,
                 << 126, 240, 18 >>, << 177, 32 >>, << 145, 32 >> } }

\* SEC, CLC, SED or CLV ; LDA #0x81 ; LDX #2 ; LDY #3 ; JSR KRESTD ; then the
\* program stops
KrestdRuns ==
    { LET prefix == << flag, 169, 129, 162, 2, 160, 3, 32, 223, 191 >>
      IN  Run(cmos, Prog(prefix, After(prefix), Stop(After(prefix)))) :
        cmos \in BOOLEAN, flag \in {56, 24, 248, 184} }

\* BNE (taken), BEQ (not taken) and BRA at the end of page 0x04 and at the
\* start of page 0x05, with offsets forward and backward, into the page of
\* the next instruction and out of it
PageBranchRuns ==
    { Run(cmos, Prog(<< >>, a, << opcode, offset >>)) :
        cmos \in BOOLEAN, opcode \in {208, 240, 128},
        a \in {1276, 1277, 1278, 1280}, offset \in {2, 127, 128, 253} }

\* a prefix that sets S, then JSR $0600 at address a, where an RTS is; the
\* JSR is right after the prefix, across the end of page 0x04, or in the last
\* three bytes of memory; after the return the program stops
JsrRuns ==
    { In(env, Run(cmos, Prog(prefix, a, << 32, 0, 6 >> \o Stop((a + 3) % MemorySize))
                        @@ Bytes(1536, << 96 >>))) :
        env \in { e \in Environments : e.stdin # << >> /\ Head(e.stdin) = 128 },
        cmos \in BOOLEAN,
        prefix \in { << 162, s, 154 >> : s \in {255, 0, 1, 128} } \cup { StackFromConsole },
        a \in {1040, 1278, 65533} }

\* LDX #x ; LDY #x ; then a load through an indexed or indirect address near
\* the end of memory ; then the program stops
OverrunRuns ==
    { Run(cmos, Prog(<< 162, x, 160, x >>, a, load \o Stop(a + Len(load)))
                @@ Bytes(16, << 240, 255 >>) @@ Bytes(48, << 240, 255 >>)) :
        cmos \in BOOLEAN, x \in {15, 32}, a \in {1028},
        load \in { << 189, 240, 255 >>,      \* LDA $FFF0,X
                   << 185, 240, 255 >>,      \* LDA $FFF0,Y
                   << 177, 16 >>,            \* LDA ($10),Y
                   << 161, 1 >>,             \* LDA ($01,X)
                   << 157, 240, 255 >>,      \* STA $FFF0,X
                   << 124, 239, 255 >> } }   \* JMP ($FFEF,X)

Runs == JumpRuns \cup UndefinedRuns \cup BranchRuns \cup BitBranchRuns
        \cup ApexRuns \cup KhandRuns \cup BrkRuns \cup StackRuns
        \cup RtiRuns \cup FlagRuns \cup IndirectRuns \cup RockwellRuns
        \cup ConsoleRuns \cup FileRuns \cup CycleRuns \cup KrestdRuns
        \cup PageBranchRuns \cup JsrRuns \cup OverrunRuns

\* nothing but zeros: Memory::Memory(size)
EmptyMemory == [ a \in {} |-> 0 ]

\* the state when main reaches its loop
Init ==
    \E sc \in Runs :
      /\ m_sets = IF sc.cmos THEN CPU_R65C02 ELSE CPU_6502
      /\ m_memory = load_raw_bin(apex_init(EmptyMemory), RawFile(sc.cells))
      /\ registers = [ a |-> 0, x |-> 0, y |-> 0, s |-> 255,
                       pc |-> execution_address, p |-> 52, e |-> TRUE ]
      /\ m_halt = FALSE
      /\ m_instruction_count = 0
      /\ m_cycle_count = 0
      /\ devices = InitialDevices(sc)
      /\ plain_char_is_signed = sc.char_signed
      /\ run = TRUE
      /\ phase = "running"
      /\ exit_code = -1
      /\ history = << >>

Next == ExecuteInstruction \/ ApexDispatch \/ Finish

Spec == Init /\ [][Next]_vars

----------------------------------------------------------------------------
(* The properties.  They speak of the latest iteration of the loop, whose  *)
(* record is the last element of history: the state before it is its .pre, *)
(* the state after it is the current state.                                *)

last == history[Len(history)]

\* the latest iteration executed an instruction of mnemonic inst to its end
Executed(insts) ==
    /\ history # << >>
    /\ last.kind = "instruction"
    /\ last.info.inst \in insts

\* the latest iteration called op (a "halt", a "branch", ...)
Called(op) == \E i \in DOMAIN last.log : last.log[i].op = op

\* C1: a JMP (absolute, indirect or absolute-indexed-indirect) whose resolved
\* target is the address of its own opcode sets the halt indicator and leaves
\* PC at that address; a JMP to any other target does not set halt.
C1_JmpToSelfHalts ==
    Executed({"JMP"}) =>
        /\ (last.ea1 = last.pc) <=> m_halt
        /\ (last.ea1 = last.pc) => registers.pc = last.pc

\* the latest iteration fetched an opcode (pc was outside the Apex vectors)
Fetched ==
    /\ history # << >>
    /\ last.kind \in {"instruction", "undefined", "fault", "wild"}
    /\ ~ InApexBand(last.pc)

\* the CPU's registers, the memory and the counters are what they were before
\* the latest iteration
CpuUntouched ==
    /\ registers = last.pre.registers
    /\ m_memory = last.pre.m_memory
    /\ m_instruction_count = last.pre.m_instruction_count
    /\ m_cycle_count = last.pre.m_cycle_count

\* C2: when the byte at PC has no record in the active catalog,
\* execute_instruction returns true (halt) and leaves every register, all of
\* memory and the instruction and cycle counters as they were.
C2_UndefinedOpcodeHalts ==
    Fetched /\ Claimants(m_sets, last.opcode) = {} =>
        /\ last.kind = "undefined"
        /\ phase = "running"
        /\ ~ run
        /\ CpuUntouched

\* C3: for every taken branch (the eight conditional branches, BRA, BBRn and
\* BBSn) halt() is called if and only if the branch target is the address of
\* the branch's own opcode byte.
C3_BranchToSelfHalts ==
    Executed({"BCC", "BCS", "BEQ", "BMI", "BNE", "BPL", "BVC", "BVS", "BRA",
              "BBR", "BBS"}) /\ Called("branch") =>
        (Called("halt") <=> last.ea2 = last.pc)

\* the iteration that made main leave its loop
Leaving == history[Len(history) - 1]

\* the Apex entry the iteration was dispatched to
Entry(h) == h.pc - SYS_PAGE_ADDRESS

\* C4: the process exits with code 0 when the program leaves through KRENTR,
\* KSAVER or KRELOD, and with code 3 when the loop is stopped by a halt: an
\* undefined opcode, a jump or branch to itself, KSCAN, KREAD, KWRITE or a
\* bad KHAND call.
C4_ExitCodes ==
    phase = "exited" =>
        /\ Leaving.kind = "apex" /\ Entry(Leaving) \in {KRENTR, KSAVER, KRELOD}
              => exit_code = 0
        /\ \/ Leaving.kind = "undefined"
           \/ Leaving.kind = "instruction"
           \/ Leaving.kind = "apex" /\ Entry(Leaving) \in {KSCAN, KREAD, KWRITE, KHAND}
              => exit_code = 3

\* the little-endian word in the two cells of page 1 above stack pointer s
StackWord(m, s) ==
    Peek(m, STACK_BASE_ADDRESS + ((s + 1) % 256))
    + 256 * Peek(m, STACK_BASE_ADDRESS + ((s + 2) % 256))

\* C5: an iteration that starts with 0xBFD0 <= PC < 0xBFE8 dispatches the
\* Apex handler and fetches no opcode, then returns as an RTS does: PC is the
\* word popped from the stack plus 1 and S is 2 higher modulo 256; no
\* instruction is executed at a PC inside the band.
C5_ApexBandDispatch ==
    history # << >> /\ InApexBand(last.pc) =>
        /\ last.kind = "apex"
        /\ \A i \in DOMAIN last.log :
              last.log[i].op = "read" => last.log[i].addr # last.pc
        /\ registers.pc = U16(StackWord(last.pre.m_memory, last.pre.registers.s) + 1)
        /\ registers.s = (last.pre.registers.s + 2) % 256

\* the latest iteration was a call of KHAND
KhandCall ==
    /\ history # << >>
    /\ last.pc = SYS_PAGE_ADDRESS + KHAND

\* the function code and the device number of the KHAND call
KhandFunction == U8(last.pre.registers.x)
KhandDevice   == Peek(last.pre.m_memory, SYS_PAGE_ADDRESS + NOWDEV)

\* the device numbers main installs a device for
Installed == {0, 1, 2, 3, 7}

\* C6: after a KHAND call with function code 0x00, 0x03, 0x06, 0x09 or 0x0C on
\* an installed device, C is the negation of the result of the device method;
\* the call does not halt, whether the method succeeded or not, and execution
\* continues at the caller's return address.  Output of 'H' on device 0
\* returns with C clear and 'H' written to standard output.
C6_KhandCarryIsFailure ==
    KhandCall /\ KhandFunction \in {0, 3, 6, 9, 12} /\ KhandDevice \in Installed =>
        /\ last.kind = "apex"
        /\ Len(last.calls) = 1
        /\ test(registers.p, C) = ~ last.calls[1].ok
        /\ run /\ phase = "running" /\ ~ m_halt
        /\ registers.pc = U16(StackWord(last.pre.m_memory, last.pre.registers.s) + 1)
        /\ (KhandFunction = 9 /\ KhandDevice = 0 /\ U8(last.pre.registers.a) = 72
              => /\ ~ test(registers.p, C)
                 /\ devices.stdout = Append(last.pre.devices.stdout, 72))

\* a KHAND call whose device method failed, and the program goes on
C6_Witness ==
    /\ KhandCall /\ KhandFunction \in {0, 3, 6, 9, 12} /\ KhandDevice \in Installed
    /\ last.kind = "apex"
    /\ ~ last.calls[1].ok
    /\ test(registers.p, C)
    /\ run

\* C7: a KHAND call reports an error and halts, calling no device method, when
\* X is no defined function code, when function 0x0F is asked of a device
\* other than 0 or 1, and when NOWDEV names a device that is not installed,
\* for every NOWDEV in 0..255.
C7_KhandBadCallHalts ==
    KhandCall /\ ( \/ KhandFunction \notin {0, 3, 6, 9, 12, 15}
                   \/ KhandFunction = 15 /\ KhandDevice \notin {0, 1}
                   \/ KhandDevice \notin Installed ) =>
        /\ last.kind = "apex"
        /\ last.calls = << >>
        /\ ~ run
        /\ devices = last.pre.devices

\* the stack operations of the latest iteration
IsPush(e) == e.op = "push"
IsPop(e)  == e.op = "pop"
Pushes == SelectSeq(last.log, IsPush)
Pops   == SelectSeq(last.log, IsPop)

\* C8: BRK at address a pushes the high byte of a+2, the low byte of a+2 and
\* P with bits 5 and 4 set, in this order; it sets I, clears D on CMOS and
\* leaves D alone on NMOS, and loads PC from the word at 0xFFFE; S ends 3
\* lower modulo 256, and halt is set exactly when the PC loaded is 0.
C8_BrkSequence ==
    Executed({"BRK"}) =>
        /\ Len(Pushes) = 3
        /\ Pushes[1].data = Hi(U16(last.pc + 2))
        /\ Pushes[2].data = Lo(U16(last.pc + 2))
        /\ Pushes[3].data = BitOr(last.pre.registers.p, 48)
        /\ test(registers.p, I)
        /\ test(registers.p, D) = (~ m_cmos(m_sets) /\ test(last.pre.registers.p, D))
        /\ registers.pc = Peek(m_memory, VECTOR_IRQ) + 256 * Peek(m_memory, VECTOR_IRQ + 1)
        /\ registers.s = (last.pre.registers.s - 3) % 256
        /\ m_halt <=> registers.pc = 0

\* a BRK on CMOS with D set that goes to a handler
C8_Witness ==
    /\ Executed({"BRK"})
    /\ m_cmos(m_sets)
    /\ test(last.pre.registers.p, D)
    /\ ~ test(registers.p, D)
    /\ registers.pc = 1280
    /\ ~ m_halt

\* the iterations after iteration i touched the stack only in the latest one
Undisturbed(i) ==
    \A j \in (i + 1)..(Len(history) - 1) :
        \A k \in DOMAIN history[j].log : history[j].log[k].op \notin {"push", "pop"}

\* the BRK instructions that the latest iteration, an RTI, can return from
BrkBefore ==
    { i \in 1..(Len(history) - 1) :
        /\ history[i].kind = "instruction"
        /\ history[i].info.inst = "BRK"
        /\ Undisturbed(i) }

\* the flags C, Z, I, D, V and N of a value of P
Flags(p) == [ f \in {C, Z, I, D, V, N} |-> test(p, f) ]

\* C9: RTI pops P, forcing bits 4 and 5 to 1, and then PC low and PC high,
\* adding nothing; so an RTI that follows a BRK at address a with the stack
\* undisturbed resumes at a+2 with S and the flags C, Z, I, D, V and N as
\* they were before the BRK.
C9_RtiReturnsFromBrk ==
    Executed({"RTI"}) =>
        /\ Len(Pops) = 3
        /\ registers.p = BitOr(Pops[1].data, 48)
        /\ registers.pc = Pops[2].data + 256 * Pops[3].data
        /\ \A i \in BrkBefore :
              /\ registers.pc = U16(history[i].pc + 2)
              /\ registers.s = history[i].pre.registers.s
              /\ Flags(registers.p) = Flags(history[i].pre.registers.p)

\* the PHA instructions that the latest iteration, a PLA, pulls the byte of
PhaBefore ==
    { i \in 1..(Len(history) - 1) :
        /\ history[i].kind = "instruction"
        /\ history[i].info.inst = "PHA"
        /\ Undisturbed(i) }

\* C10: a push writes the byte at 0x0100 + S and then decrements S modulo 256;
\* a pop increments S modulo 256 and then reads 0x0100 + S; so PHA followed by
\* PLA leaves A and S as they were before the PHA, for every S, and every
\* stack access lies in 0x0100..0x01FF.
C10_PushPop ==
    /\ Executed({"PHA"}) =>
          /\ Pushes = << [op |-> "push", addr |-> STACK_BASE_ADDRESS + last.pre.registers.s,
                          data |-> U8(last.pre.registers.a)] >>
          /\ Peek(m_memory, Pushes[1].addr) = Pushes[1].data
          /\ registers.s = (last.pre.registers.s - 1) % 256
    /\ Executed({"PLA"}) =>
          /\ Len(Pops) = 1
          /\ registers.s = (last.pre.registers.s + 1) % 256
          /\ Pops[1].addr = STACK_BASE_ADDRESS + registers.s
          /\ registers.a = Peek(last.pre.m_memory, Pops[1].addr)
          /\ \A i \in PhaBefore :
                /\ registers.a = history[i].pre.registers.a
                /\ registers.s = history[i].pre.registers.s
    /\ history # << >> =>
          \A k \in DOMAIN last.log :
              last.log[k].op \in {"push", "pop"} => last.log[k].addr \in 256..511


\* C11: starting from P = 0x34 in emulation mode, bits 4 (B) and 5 (P5) of P
\* are 1 in every reachable state, whatever byte PLP or RTI pops.
C11_BAndP5AlwaysSet ==
    test(registers.p, B) /\ test(registers.p, P5)

\* a PLP or an RTI popped a byte for P with B and P5 clear
C11_Witness ==
    /\ Executed({"PLP", "RTI"})
    /\ ~ test(Pops[1].data, B) /\ ~ test(Pops[1].data, P5)
    /\ registers.p = Pops[1].data + 48


\* C12: in every reachable state, after any instruction and any KHAND call,
\* a console input-byte of 0x80 or above included, A, X, Y and S lie in
\* 0..255, PC in 0..65535 and P in 0..255.
C12_RegistersInRange ==
    /\ registers.a \in 0..255 /\ registers.x \in 0..255
    /\ registers.y \in 0..255 /\ registers.s \in 0..255
    /\ registers.pc \in 0..65535
    /\ registers.p \in 0..255


\* the result of the latest instruction: the byte it stored, or the low
\* eight bits of the register it loaded
ResultOf(inst, mode) ==
    IF inst \in {"ASL", "LSR", "ROL", "ROR", "INC", "DEC"} /\ mode # "ACCUMULATOR"
    THEN last.log[Len(last.log)].data
    ELSE IF inst \in {"LDX", "PLX", "TAX", "TSX", "INX", "DEX"} THEN U8(registers.x)
    ELSE IF inst \in {"LDY", "PLY", "TAY", "INY", "DEY"} THEN U8(registers.y)
    ELSE U8(registers.a)

\* C13: after every load, logical operation, shift or rotate, increment or
\* decrement, pull into A, X or Y, and register transfer other than TXS, Z is
\* 1 exactly when the 8-bit result is zero and N is bit 7 of the 8-bit
\* result; TXS changes no flag.
C13_NZFromResult ==
    /\ Executed({"LDA", "LDX", "LDY", "AND", "ORA", "EOR", "ASL", "LSR", "ROL",
                 "ROR", "INC", "DEC", "INX", "INY", "DEX", "DEY", "PLA", "PLX",
                 "PLY", "TAX", "TAY", "TXA", "TYA", "TSX"}) =>
          /\ test(registers.p, Z) = (ResultOf(last.info.inst, last.info.mode) = 0)
          /\ test(registers.p, N) = (Bit(ResultOf(last.info.inst, last.info.mode), 7) = 1)
    /\ Executed({"TXS"}) => registers.p = last.pre.registers.p

\* a decrement of memory whose result is zero, with Z clear before
C13_Witness ==
    /\ Executed({"DEC"})
    /\ last.info.mode = "ZERO_PAGE"
    /\ ~ test(last.pre.registers.p, Z)
    /\ Peek(m_memory, 16) = 0
    /\ test(registers.p, Z) /\ ~ test(registers.p, N)


\* C14: for JMP (p) the low byte of the target is M[p]; on NMOS the high
\* byte is read from (p & 0xFF00) | ((p + 1) & 0x00FF), so JMP ($12FF) takes
\* it from 0x1200; on CMOS it is read from p + 1, so JMP ($12FF) takes it
\* from 0x1300.
C14_JmpIndirectHighByte ==
    Executed({"JMP"}) /\ last.info.mode = "ABSOLUTE_IND" =>
        LET p  == last.log[2].data + 256 * last.log[3].data
            hi == IF m_cmos(m_sets) THEN p + 1
                  ELSE (p \div 256) * 256 + ((p + 1) % 256)
        IN  /\ last.log[4].addr = p
            /\ last.log[5].addr = hi
            /\ registers.pc = Peek(last.pre.m_memory, p)
                              + 256 * Peek(last.pre.m_memory, hi)
            /\ (p = 4863 => hi = IF m_cmos(m_sets) THEN 4864 ELSE 4608)

\* JMP ($12FF) on NMOS with different bytes at 0x1200 and 0x1300
C14_Witness ==
    /\ Executed({"JMP"}) /\ last.info.mode = "ABSOLUTE_IND"
    /\ ~ m_cmos(m_sets)
    /\ last.log[4].addr = 4863 /\ last.log[5].addr = 4608
    /\ Peek(last.pre.m_memory, 4608) # Peek(last.pre.m_memory, 4864)
    /\ registers.pc = 1332


----------------------------------------------------------------------------------------------------------------------------------------
(* ADC and SBC as functions of A, the operand, C and D: the CPU at an      *)
(* ADC #operand or SBC #operand, with A and the flags C and D as LDA       *)
(* #value, SEC/CLC and SED/CLD leave them, and the execution of that one   *)
(* instruction.                                                            *)

AluValues == 0..255

ADC_IMMEDIATE == 105    \* 0x69
SBC_IMMEDIATE == 233    \* 0xe9

\* the state of main's loop at the instruction, for the variants and the
\* opcodes given
AluStart(variants, opcodes) ==
    \E cmos \in variants, opcode \in opcodes, value \in AluValues,
       operand \in AluValues, carry \in BOOLEAN, decimal \in BOOLEAN :
      LET sc == Run(cmos, Bytes(execution_address, << opcode, operand >>))
      IN  /\ m_sets = IF sc.cmos THEN CPU_R65C02 ELSE CPU_6502
          /\ m_memory = load_raw_bin(apex_init(EmptyMemory), RawFile(sc.cells))
          /\ registers = [ a |-> value, x |-> 0, y |-> 0, s |-> 255,
                           pc |-> execution_address,
                           p |-> set(set(52, C, carry), D, decimal), e |-> TRUE ]
          /\ m_halt = FALSE
          /\ m_instruction_count = 0
          /\ m_cycle_count = 0
          /\ devices = InitialDevices(sc)
          /\ plain_char_is_signed = sc.char_signed
          /\ run = TRUE
          /\ phase = "running"
          /\ exit_code = -1
          /\ history = << >>

\* one iteration of main's loop, at the instruction
AluStep == history = << >> /\ ExecuteInstruction

\* ADC on both variants
AdcSpec == AluStart(BOOLEAN, {ADC_IMMEDIATE}) /\ [][AluStep]_vars

\* SBC on both variants
SbcSpec == AluStart(BOOLEAN, {SBC_IMMEDIATE}) /\ [][AluStep]_vars

\* ADC and SBC on CMOS
CmosSpec == AluStart({TRUE}, {ADC_IMMEDIATE, SBC_IMMEDIATE}) /\ [][AluStep]_vars

\* the operands of the ADC or SBC that the latest iteration executed
AluA == last.pre.registers.a
AluM == Peek(last.pre.m_memory, last.ea1)
AluC == IF test(last.pre.registers.p, C) THEN 1 ELSE 0
AluD == test(last.pre.registers.p, D)

\* C15: with D = 0, for all A and M in 0..255 and C in {0, 1}, ADC sets
\* A = (A + M + C) & 0xFF, C = carry out of bit 7, V = (carry out of bit 7)
\* XOR (carry out of bit 6), Z = (new A = 0) and N = bit 7 of new A; A = 0,
\* M = 0, C = 0 yields A = 0, Z = 1, C = 0, V = 0.
C15_BinaryAdc ==
    Executed({"ADC"}) /\ ~ AluD /\ AluA \in 0..255 =>
        LET sum    == AluA + AluM + AluC
            carry7 == sum >= 256
            carry6 == (AluA % 128) + (AluM % 128) + AluC >= 128
        IN  /\ registers.a = sum % 256
            /\ test(registers.p, C) = carry7
            /\ test(registers.p, V) = (carry7 # carry6)
            /\ test(registers.p, Z) = (registers.a = 0)
            /\ test(registers.p, N) = (Bit(registers.a, 7) = 1)
            /\ (AluA = 0 /\ AluM = 0 /\ AluC = 0 =>
                   /\ registers.a = 0
                   /\ test(registers.p, Z)
                   /\ ~ test(registers.p, C)
                   /\ ~ test(registers.p, V))

\* 0x50 + 0x50 with C = 0 in binary mode: A = 0xA0 with V and N set, C clear
C15_Witness ==
    /\ Executed({"ADC"}) /\ ~ AluD
    /\ AluA = 80 /\ AluM = 80 /\ AluC = 0
    /\ registers.a = 160
    /\ test(registers.p, V) /\ test(registers.p, N)
    /\ ~ test(registers.p, C) /\ ~ test(registers.p, Z)


\* the number a byte of two decimal digits stands for, and the byte that
\* stands for a number below 100
IsBcd(byte) == byte \div 16 <= 9 /\ byte % 16 <= 9
Dec(byte) == 10 * (byte \div 16) + (byte % 16)
BcdOf(number) == 16 * (number \div 10) + (number % 10)

\* C16: with D = 1, for all valid BCD A and M and C in {0, 1}, ADC leaves A
\* equal to the BCD encoding of (dec(A) + dec(M) + C) mod 100 and sets C
\* exactly when dec(A) + dec(M) + C > 99, on NMOS and on CMOS; 0x19 + 0x28
\* gives A = 0x47, C = 0 and 0x58 + 0x46 gives A = 0x04, C = 1.
C16_DecimalAdc ==
    Executed({"ADC"}) /\ AluD /\ IsBcd(AluA) /\ IsBcd(AluM) =>
        LET total == Dec(AluA) + Dec(AluM) + AluC
        IN  /\ registers.a = BcdOf(total % 100)
            /\ test(registers.p, C) = (total > 99)
            /\ (AluA = 25 /\ AluM = 40 /\ AluC = 0 =>
                   registers.a = 71 /\ ~ test(registers.p, C))
            /\ (AluA = 88 /\ AluM = 70 /\ AluC = 0 =>
                   registers.a = 4 /\ test(registers.p, C))

\* 0x58 + 0x46 with C = 0 in decimal mode on NMOS: A = 0x04, C = 1
C16_Witness ==
    /\ Executed({"ADC"}) /\ AluD /\ ~ m_cmos(m_sets)
    /\ AluA = 88 /\ AluM = 70 /\ AluC = 0
    /\ registers.a = 4
    /\ test(registers.p, C)


\* C17: on NMOS with D = 1, for all A, M and C, ADC takes N from bit 7 of
\* the value ((hi0 << 4) | (lo & 0x0F)) formed after the correction of the
\* low digit and before the correction of the high digit, and sets Z exactly
\* when the binary sum (A + M + C) & 0xFF is zero.
C17_NmosDecimalAdcFlags ==
    Executed({"ADC"}) /\ AluD /\ ~ m_cmos(m_sets) /\ AluA \in 0..255 =>
        LET lo0    == (AluA % 16) + (AluM % 16) + AluC
            carry4 == lo0 > 9
            lo     == IF carry4 THEN lo0 + 6 ELSE lo0
            hi0    == (AluA \div 16) + (AluM \div 16) + (IF carry4 THEN 1 ELSE 0)
            value  == (hi0 * 16 + (lo % 16)) % 256
        IN  /\ test(registers.p, N) = (Bit(value, 7) = 1)
            /\ test(registers.p, Z) = ((AluA + AluM + AluC) % 256 = 0)

\* 0x99 + 0x01 with C = 0 on NMOS: A = 0x00 with Z clear and N set
C17_Witness ==
    /\ Executed({"ADC"}) /\ AluD /\ ~ m_cmos(m_sets)
    /\ AluA = 153 /\ AluM = 1 /\ AluC = 0
    /\ registers.a = 0
    /\ ~ test(registers.p, Z)
    /\ test(registers.p, N)


\* the latest instruction executed from the same state with D clear
BinaryTwin ==
    LET pre == last.pre
        c   == [ r |-> [pre.registers EXCEPT !.p = set(@, D, FALSE)],
                 m |-> pre.m_memory, halt |-> pre.m_halt,
                 count |-> pre.m_instruction_count, cycles |-> pre.m_cycle_count,
                 icc |-> 0, v |-> 0, ea1 |-> 0, ea2 |-> 0, fault |-> FALSE,
                 log |-> << >> ]
    IN  execute_instruction(m_sets, read_8(c, pre.registers.pc), last.info)

\* C18: on CMOS with D = 1, ADC and SBC set N and Z from the final
\* decimal-corrected accumulator, and each is charged exactly one cycle more
\* than the same instruction executed with D = 0.
C18_CmosDecimalFlagsAndCycle ==
    Executed({"ADC", "SBC"}) /\ AluD /\ m_cmos(m_sets) /\ AluA \in 0..255 =>
        /\ test(registers.p, N) = (Bit(registers.a, 7) = 1)
        /\ test(registers.p, Z) = (registers.a = 0)
        /\ last.icc = BinaryTwin.icc + 1
        /\ m_cycle_count - last.pre.m_cycle_count
             = (BinaryTwin.cycles - last.pre.m_cycle_count) + 1

\* 0x99 + 0x01 with C = 0 on CMOS: A = 0x00 with Z set and N clear, in the
\* cycles of the binary ADC and one more
C18_Witness ==
    /\ Executed({"ADC"}) /\ AluD /\ m_cmos(m_sets)
    /\ AluA = 153 /\ AluM = 1 /\ AluC = 0
    /\ registers.a = 0
    /\ test(registers.p, Z)
    /\ ~ test(registers.p, N)
    /\ BinaryTwin.icc = 2
    /\ last.icc = 3


\* C19: with D = 1, for all valid BCD A and M and C in {0, 1}, SBC leaves A
\* equal to the BCD encoding of (dec(A) - dec(M) - (1 - C)) mod 100 and sets
\* C exactly when dec(A) >= dec(M) + (1 - C), with the same A and C on NMOS
\* and on CMOS.
C19_DecimalSbc ==
    Executed({"SBC"}) /\ AluD /\ IsBcd(AluA) /\ IsBcd(AluM) =>
        LET borrow == 1 - AluC
        IN  /\ registers.a = BcdOf((100 + Dec(AluA) - Dec(AluM) - borrow) % 100)
            /\ test(registers.p, C) = (Dec(AluA) >= Dec(AluM) + borrow)

\* 0x12 - 0x34 with C = 0 in decimal mode on NMOS: A = 0x77 with a borrow
C19_Witness ==
    /\ Executed({"SBC"}) /\ AluD /\ ~ m_cmos(m_sets)
    /\ AluA = 18 /\ AluM = 52 /\ AluC = 0
    /\ registers.a = 119
    /\ ~ test(registers.p, C)


\* C20: for each n in 0..7, RMBn (opcode 0x07 + 0x10 * n) clears exactly bit
\* n of the addressed zero-page byte and SMBn (opcode 0x87 + 0x10 * n) sets
\* exactly bit n; the other seven bits of the byte, every other memory
\* location, A, X, Y, S and all flags are unchanged.
C20_RmbSmbBit ==
    Executed({"RMB", "SMB"}) =>
        LET n   == (last.opcode \div 16) % 8
            old == Peek(last.pre.m_memory, last.ea1)
            new == Peek(m_memory, last.ea1)
        IN  /\ last.opcode = (IF last.info.inst = "RMB" THEN 7 ELSE 135) + 16 * n
            /\ last.ea1 \in 0..255
            /\ Bit(new, n) = (IF last.info.inst = "RMB" THEN 0 ELSE 1)
            /\ \A k \in 0..7 \ {n} : Bit(new, k) = Bit(old, k)
            /\ \A x \in (DOMAIN m_memory \cup DOMAIN last.pre.m_memory) \ {last.ea1} :
                   Peek(m_memory, x) = Peek(last.pre.m_memory, x)
            /\ registers.a = last.pre.registers.a
            /\ registers.x = last.pre.registers.x
            /\ registers.y = last.pre.registers.y
            /\ registers.s = last.pre.registers.s
            /\ registers.p = last.pre.registers.p


\* C21: for each n in 0..7, BBRn (opcode 0x0F + 0x10 * n) transfers control
\* to its relative target exactly when bit n of the addressed zero-page byte
\* is 0, and BBSn (opcode 0x8F + 0x10 * n) exactly when bit n is 1;
\* otherwise PC advances to the opcode address + 3; memory is never modified.
C21_BitBranch ==
    Executed({"BBR", "BBS"}) =>
        LET n      == (last.opcode \div 16) % 8
            byte   == Peek(last.pre.m_memory,
                           Peek(last.pre.m_memory, U16(last.pc + 1)))
            offset == S8(Peek(last.pre.m_memory, U16(last.pc + 2)))
            taken  == Bit(byte, n) = (IF last.info.inst = "BBR" THEN 0 ELSE 1)
        IN  /\ last.opcode = (IF last.info.inst = "BBR" THEN 15 ELSE 143) + 16 * n
            /\ registers.pc = IF taken THEN U16(last.pc + 3 + offset)
                              ELSE U16(last.pc + 3)
            /\ m_memory = last.pre.m_memory


----------------------------------------------------------------------------
(* The construction of the catalog as a function of the variant bitset:    *)
(* CPU6502::create(instruction_sets, memory_sp) for every bitset and for   *)
(* storage that new hands out zeroed or with a slot that is not null.      *)

\* the slots of m_by_opcode that are not null before the constructor runs
RawContents == { {}, {0}, {2}, {128}, {255} }

\* main before CPU6502::create
CatalogInit ==
    \E sets \in SUBSET Set :
      /\ m_sets = sets
      /\ m_memory = EmptyMemory
      /\ registers = [ a |-> 0, x |-> 0, y |-> 0, s |-> 255,
                       pc |-> execution_address, p |-> 52, e |-> TRUE ]
      /\ m_halt = FALSE
      /\ m_instruction_count = 0
      /\ m_cycle_count = 0
      /\ devices = InitialDevices(Run(FALSE, EmptyMemory))
      /\ plain_char_is_signed = TRUE
      /\ run = TRUE
      /\ phase = "constructing"
      /\ exit_code = -1
      /\ history = << >>

\* InstructionSet::create(sets): a logic_error that the constructor throws is
\* caught nowhere
Create ==
    /\ phase = "constructing"
    /\ \E garbage \in RawContents :
         LET made == InstructionSet(m_sets, garbage)
         IN  /\ phase' = IF made.error = "none" THEN "constructed" ELSE "aborted"
             /\ history' = << [ kind |-> "create", garbage |-> garbage,
                                error |-> made.error,
                                m_by_opcode |-> made.m_by_opcode ] >>
    /\ UNCHANGED << registers, m_memory, m_halt, m_instruction_count,
                    m_cycle_count, m_sets, devices, plain_char_is_signed,
                    run, exit_code >>

CatalogSpec == CatalogInit /\ [][Create]_vars

\* the bitsets the header predefines
PredefinedSets ==
    { CPU_6502, CPU_R6502, CPU_65C02, CPU_R65C02, CPU_WDC65C02, CPU_WDC65C816,
      CPU_65CE02 }

\* two active records of the table would occupy the same opcode slot
DuplicateOpcode(sets) ==
    \E i, j \in DOMAIN s_main_table :
       /\ i < j
       /\ s_main_table[i][2] \in sets /\ s_main_table[j][2] \in sets
       /\ Slots(s_main_table[i]) \cap Slots(s_main_table[j]) # {}

Created == history # << >> /\ last.kind = "create"

\* C22: for every variant bitset, construction either fails with a
\* duplicate-opcode error or yields a table in which each of the 256 slots
\* holds at most one record, of an active variant; construction succeeds for
\* each predefined CPU set and fails for any bitset in which two active
\* records would occupy the same opcode slot.
C22_CatalogConstruction ==
    Created =>
        /\ last.error \in {"none", "duplicate opcode"}
        /\ last.error = "none" =>
              \A o \in 0..255 :
                 \/ last.m_by_opcode[o] = NullSlot
                 \/ /\ last.m_by_opcode[o] \in DOMAIN s_main_table
                    /\ s_main_table[last.m_by_opcode[o]][2] \in m_sets
                    /\ o \in Slots(s_main_table[last.m_by_opcode[o]])
        /\ m_sets \in PredefinedSets => last.error = "none"
        /\ DuplicateOpcode(m_sets) => last.error # "none"


\* the bytes written through the console device so far, in order
ConsoleWritten ==
    LET written(h) == /\ h.kind = "apex"
                      /\ h.calls # << >>
                      /\ h.calls[1].device \in {0, 1}
                      /\ h.calls[1].method = "output_byte"
        outputs == SelectSeq(history, written)
    IN  [ i \in DOMAIN outputs |-> U8(outputs[i].pre.registers.a) ]

\* what the bytes w become: CR is LF, an LF right after a CR is dropped, any
\* other byte is itself
CrToLf(w) ==
    LET after_cr(i) == i > 1 /\ w[i - 1] = CR
        kept == SelectSeq([ i \in DOMAIN w |-> << w[i], after_cr(i) >> ],
                          LAMBDA e : ~ (e[1] = LF /\ e[2]))
    IN  [ i \in DOMAIN kept |-> IF kept[i][1] = CR THEN LF ELSE kept[i][1] ]

\* C24: for every sequence of bytes written through the console device, each
\* CR is emitted to standard output as exactly one LF, an LF that immediately
\* follows a CR is dropped, every other byte is emitted unchanged, and no raw
\* CR ever reaches standard output; CR LF CR LF produces exactly LF LF.
C24_ConsoleCrToLf ==
    /\ devices.stdout = CrToLf(ConsoleWritten)
    /\ \A i \in DOMAIN devices.stdout : devices.stdout[i] # CR
    /\ ConsoleWritten = << CR, LF, CR, LF >> => devices.stdout = << LF, LF >>


\* the methods called on the file-byte device so far, in order
FileCalls ==
    LET on_file(h) == /\ h.kind = "apex"
                      /\ h.calls # << >>
                      /\ h.calls[1].device = 3
        called == SelectSeq(history, on_file)
    IN  [ i \in DOMAIN called |-> called[i].calls[1].method ]

\* the latest open_for_input among the calls, 0 when there is none
LastOpen(calls) ==
    LET opens == { i \in DOMAIN calls : calls[i] = "open_for_input" }
    IN  IF opens = {} THEN 0 ELSE CHOOSE i \in opens : \A j \in opens : j <= i

\* C25: on the file-byte device every open-for-input repositions reading at
\* the first byte of the input file, also when the reads before it had
\* reached end of file; the input-byte calls that follow deliver the bytes of
\* the file in order (an LF as CR, the file being read in text mode), and
\* every input-byte at or after end of file returns A = 0x1A with C = 0.
C25_FileReopenAndEof ==
    LET calls == FileCalls
        open  == LastOpen(calls)
        k     == Len(calls) - open
        data  == devices.in_data
    IN  /\ history # << >>
        /\ last.kind = "apex" /\ last.calls # << >>
        /\ last.calls[1].device = 3 /\ last.calls[1].method = "input_byte"
        /\ devices.in_is_open
        /\ open > 0
        /\ \A i \in open..Len(calls) : calls[i] # "close"
        => /\ ~ test(registers.p, C)
           /\ registers.a = IF k > Len(data) THEN EOF_CHARACTER
                            ELSE IF data[k] = LF THEN CR ELSE data[k]


\* the instructions that read a cell, modify the byte and write it back
ReadModifyWrite == {"ASL", "DEC", "INC", "LSR", "ROL", "ROR"}

\* the address the latest instruction indexes, from its operand bytes: the
\* operand word, or for (zp),Y the word in the zero-page cell it names
UnindexedBase ==
    LET m == last.pre.m_memory
        b == Peek(m, (last.pc + 1) % MemorySize)
    IN  IF last.info.mode = "ZP_IND_Y"
        THEN Peek(m, b) + 256 * Peek(m, (b + 1) % 256)
        ELSE b + 256 * Peek(m, (last.pc + 2) % MemorySize)

\* the index register the mode of the latest instruction adds
IndexOf ==
    IF last.info.mode = "ABSOLUTE_X" THEN last.pre.registers.x
    ELSE last.pre.registers.y

KrestdCall ==
    /\ history # << >>
    /\ last.pc = SYS_PAGE_ADDRESS + KRESTD

\* the iteration before the latest executed a JSR
AfterJsr ==
    /\ Len(history) >= 2
    /\ history[Len(history) - 1].kind = "instruction"
    /\ history[Len(history) - 1].info.inst = "JSR"

\* C30: a KRESTD call changes nothing in the registers or the memory except
\* that it clears C; it does not halt, and execution resumes at the caller's
\* return address through the synthesized RTS (PC is the popped word plus 1,
\* the address after the JSR that made the call, and S is 2 higher).
C30_KrestdClearsCarryOnly ==
    KrestdCall =>
        /\ last.kind = "apex"
        /\ registers.a = last.pre.registers.a
        /\ registers.x = last.pre.registers.x
        /\ registers.y = last.pre.registers.y
        /\ registers.e = last.pre.registers.e
        /\ registers.p = set(last.pre.registers.p, C, FALSE)
        /\ m_memory = last.pre.m_memory
        /\ devices = last.pre.devices
        /\ run /\ ~ m_halt /\ phase = "running"
        /\ registers.pc = U16(StackWord(last.pre.m_memory, last.pre.registers.s) + 1)
        /\ registers.s = (last.pre.registers.s + 2) % 256
        /\ AfterJsr => registers.pc = U16(history[Len(history) - 1].pc + 3)

\* SEC ; ... ; JSR KRESTD at 0x0407: the call returns to 0x040A with C clear
\* and A, X and Y as they were
C30_Witness ==
    /\ KrestdCall /\ AfterJsr
    /\ test(last.pre.registers.p, C)
    /\ ~ test(registers.p, C)
    /\ registers.a = 129 /\ registers.x = 2 /\ registers.y = 3
    /\ registers.pc = 1034
    /\ run


----------------------------------------------------------------------------
(* The loaders of Apex executables (memory.cc) and the part of main that   *)
(* calls them (ibex.cc).  A BIN file is the sequence of its characters, a  *)
(* SAV file the sequence of its bytes.                                     *)

\* static const std::string hex_digits
hex_digits ==
    << "0", "1", "2", "3", "4", "5", "6", "7", "8", "9", "a", "b", "c", "d", "e", "f" >>

ADDRESS_HEX_DIGITS == 4
DATA_HEX_DIGITS    == 2

\* std::string::npos, the result of a find that finds nothing
npos == 0 - 1

\* hex_digits.find(c)
find(c) ==
    IF \E v \in DOMAIN hex_digits : hex_digits[v] = c
    THEN (CHOOSE v \in DOMAIN hex_digits : hex_digits[v] = c) - 1
    ELSE npos

\* utility::downcase_character(c): an upper-case letter becomes the
\* lower-case one, any other character is returned as it is
downcase_character(c) ==
    CASE c = "A" -> "a" [] c = "B" -> "b" [] c = "C" -> "c" [] c = "D" -> "d"
      [] c = "E" -> "e" [] c = "F" -> "f" [] c = "G" -> "g" [] OTHER -> c

\* the loop of Memory::load_apex_bin from character i of the file on; st
\* holds the locals have_address, reading_address, address, value and
\* digit_count, the memory m and the exception thrown, if any.
\* m_memory.at(address++) throws std::out_of_range past the end of memory.
\* value holds four digits at most and address is at most MemorySize, so the
\* std::uint32_t arithmetic never wraps.
RECURSIVE load_apex_bin_loop(_, _, _)
load_apex_bin_loop(st, file, i) ==
    IF i > Len(file) THEN st
    ELSE
    LET c == downcase_character(file[i])
        v == find(c)
        value == st.value * 16 + v
        digit_count == st.digit_count + 1
    IN  IF c = "*"
        THEN load_apex_bin_loop([st EXCEPT !.reading_address = TRUE], file, i + 1)
        ELSE IF v = npos
        THEN load_apex_bin_loop(st, file, i + 1)
        ELSE IF st.reading_address
        THEN IF digit_count < ADDRESS_HEX_DIGITS
             THEN load_apex_bin_loop([st EXCEPT !.value = value,
                                                !.digit_count = digit_count],
                                     file, i + 1)
             ELSE load_apex_bin_loop([st EXCEPT !.address = value,
                                                !.have_address = TRUE,
                                                !.reading_address = FALSE,
                                                !.digit_count = 0,
                                                !.value = 0],
                                     file, i + 1)
        ELSE IF digit_count < DATA_HEX_DIGITS
        THEN load_apex_bin_loop([st EXCEPT !.value = value,
                                           !.digit_count = digit_count],
                                file, i + 1)
        ELSE IF ~ st.have_address
        THEN [st EXCEPT !.error = "object file doesn't start with address"]
        ELSE IF st.address >= MemorySize
        THEN [st EXCEPT !.error = "out_of_range"]
        ELSE load_apex_bin_loop([st EXCEPT !.m = Store(st.m, st.address, value % 256),
                                           !.address = st.address + 1,
                                           !.digit_count = 0,
                                           !.value = 0],
                                file, i + 1)

\* Memory::load_apex_bin(object_filename) for a file that can be opened; the
\* local address is not initialised and is not read before it is assigned
load_apex_bin(m, file) ==
    load_apex_bin_loop([ have_address |-> FALSE, reading_address |-> FALSE,
                         address |-> 0, value |-> 0, digit_count |-> 0,
                         m |-> m, error |-> "none" ],
                       file, 1)

PAGE_SIZE == 256                       \* Apex::PAGE_SIZE
SYS_PAGE_PROGRAM_AREA_SIZE == 80       \* 0x50
USRMEM == 21                           \* 0x15

\* a copy that starts one cell late, which C27 tells from copy
copy_one_late(m, bytes, address) ==
    LET written == { address + i : i \in DOMAIN bytes } \cap (0..(MemorySize - 1))
        byte(a) == bytes[a - address]
    IN  [ a \in (DOMAIN m \ written) \cup { w \in written : byte(w) # 0 } |->
            IF a \in written THEN byte(a) ELSE m[a] ]

\* std::copy of bytes to m_memory.begin() + address, as far as the bytes lie
\* inside the memory
copy(m, bytes, address) ==
    LET written == { address + i - 1 : i \in DOMAIN bytes } \cap (0..(MemorySize - 1))
        byte(a) == bytes[a - address + 1]
    IN  [ a \in (DOMAIN m \ written) \cup { w \in written : byte(w) # 0 } |->
            IF a \in written THEN byte(a) ELSE m[a] ]

\* the loop of Memory::load_apex_sav from page k of the file on (k = 0 is the
\* first page); st holds the memory m, the locals address and first_page and
\* the way the call ended.  A read that finds less than a page sets eofbit and
\* ends the loop.  A std::copy that runs past the end of m_memory is undefined:
\* when crashes holds the process dies there, otherwise it goes on.
RECURSIVE load_apex_sav_loop(_, _, _, _)
load_apex_sav_loop(st, file, k, crashes) ==
    IF Len(file) < PAGE_SIZE * (k + 1) THEN st
    ELSE
    LET page == SubSeq(file, PAGE_SIZE * k + 1, PAGE_SIZE * (k + 1))
        m1 == copy(st.m, SubSeq(page, 1, SYS_PAGE_PROGRAM_AREA_SIZE), SYS_PAGE_ADDRESS)
        m2 == copy(m1, SubSeq(page, SYS_PAGE_PROGRAM_AREA_SIZE + 1, PAGE_SIZE),
                   SYS_PAGE_PROGRAM_AREA_SIZE)
        usrmem == Peek(m2, SYS_PAGE_ADDRESS + USRMEM)
                  + 256 * Peek(m2, SYS_PAGE_ADDRESS + USRMEM + 1)
    IN  IF st.first_page
        THEN load_apex_sav_loop([st EXCEPT !.m = m2, !.address = usrmem,
                                           !.first_page = FALSE],
                                file, k + 1, crashes)
        ELSE IF st.address + PAGE_SIZE > MemorySize /\ crashes
        THEN [st EXCEPT !.error = "wild"]
        ELSE load_apex_sav_loop([st EXCEPT !.m = copy(st.m, page, st.address),
                                           !.address = st.address + PAGE_SIZE],
                                file, k + 1, crashes)

\* Memory::load_apex_sav(save_filename) for a file that can be opened
load_apex_sav(m, file, crashes) ==
    load_apex_sav_loop([ m |-> m, address |-> 0, first_page |-> TRUE,
                         error |-> "none" ],
                       file, 0, crashes)

\* the number of tokens of a BIN file
MaxTokens == 4

\* what the BIN files are made of: an address in lower and in mixed case, a
\* byte in lower and in mixed case, one digit, characters that are no digits,
\* the start of an address, a lone '*'
BinTokens ==
    { << "*", "0", "4", "0", "0" >>, << "*", "0", "4", "F", "e" >>,
      << "a", "9" >>, << "F", "f" >>, << "7" >>, << "g", " " >>,
      << "*", "1", "2" >>, << "*" >> }

\* the characters of the tokens in order
RECURSIVE Flat(_)
Flat(tokens) ==
    IF tokens = << >> THEN << >> ELSE Head(tokens) \o Flat(Tail(tokens))

BinFiles ==
    { Flat(tokens) : tokens \in UNION { [ 1..n -> BinTokens ] : n \in 0..MaxTokens } }

\* the SAV file of whole pages and tail more bytes whose first page names
\* usrmem; the other bytes are nonzero and differ from page to page
SavFile(usrmem, whole, tail, fill) ==
    [ j \in 1..(PAGE_SIZE * whole + tail) |->
        IF j = USRMEM + 1 THEN Lo(usrmem)
        ELSE IF j = USRMEM + 2 THEN Hi(usrmem)
        ELSE ((j * 7 + fill) % 255) + 1 ]

\* USRMEM in the middle of memory, in the zero page, below the system page,
\* in the last page and half a page before the end of memory
SavFiles ==
    { SavFile(usrmem, whole, tail, fill) :
        usrmem \in {8192, 240, 48880, 65280, 65408},
        whole \in 0..3, tail \in {0, 1, 255}, fill \in {1, 2} }

\* main up to the loading of the executable: the memory is created and
\* Apex::init has run
LoadInit ==
    /\ m_sets = CPU_6502
    /\ m_memory = apex_init(EmptyMemory)
    /\ registers = [ a |-> 0, x |-> 0, y |-> 0, s |-> 255,
                     pc |-> execution_address, p |-> 52, e |-> TRUE ]
    /\ m_halt = FALSE
    /\ m_instruction_count = 0
    /\ m_cycle_count = 0
    /\ devices = InitialDevices(Run(FALSE, EmptyMemory))
    /\ plain_char_is_signed = TRUE
    /\ run = TRUE
    /\ phase = "loading"
    /\ exit_code = -1
    /\ history = << >>

\* what main does with the result of a loader: an exception is caught nowhere
\* and ends the process; otherwise pc becomes the start vector
Loaded(format, file, result) ==
    /\ m_memory' = result.m
    /\ phase' = IF result.error = "none" THEN "running" ELSE "aborted"
    /\ registers' = IF result.error = "none"
                    THEN [registers EXCEPT !.pc = SYS_PAGE_ADDRESS + VSTART]
                    ELSE registers
    /\ history' = << [ kind |-> "load", format |-> format, file |-> file,
                       error |-> result.error, pre |-> m_memory ] >>
    /\ UNCHANGED << m_halt, m_instruction_count, m_cycle_count, m_sets,
                    devices, plain_char_is_signed, run, exit_code >>

\* main with option -b:  memory_sp->load_apex_bin(executable_fn)
LoadApexBin ==
    /\ phase = "loading"
    /\ \E file \in BinFiles : Loaded("bin", file, load_apex_bin(m_memory, file))

\* main with neither -b nor -r:  memory_sp->load_apex_sav(executable_fn)
LoadApexSav ==
    /\ phase = "loading"
    /\ \E file \in SavFiles, crashes \in BOOLEAN :
         Loaded("sav", file, load_apex_sav(m_memory, file, crashes))

LoadSpec == LoadInit /\ [][LoadApexBin \/ LoadApexSav]_vars


\* the latest step loaded an executable of the format
LoadedFile(format) ==
    /\ history # << >>
    /\ last.kind = "load"
    /\ last.format = format

\* the characters of a BIN file that are not ignored, in lower case: the
\* '*' and the hex digits
Significant(file) ==
    LET lower == [ i \in DOMAIN file |-> downcase_character(file[i]) ]
        counts(c) == c = "*" \/ find(c) # npos
    IN  SelectSeq(lower, counts)

\* every '*' of the significant characters s is followed by four hex digits,
\* and s starts with a '*'
AddressesComplete(s) ==
    /\ s # << >> => s[1] = "*"
    /\ \A i \in DOMAIN s :
         s[i] = "*" => /\ i + 4 <= Len(s)
                       /\ \A j \in (i + 1)..(i + 4) : s[j] # "*"

\* the number the hex digits s[i] .. s[j] write
RECURSIVE HexNumber(_, _, _)
HexNumber(s, i, j) ==
    IF j < i THEN 0 ELSE 16 * HexNumber(s, i, j - 1) + find(s[j])

\* the memory a BIN file with complete addresses describes, from significant
\* character i on with the load pointer at p: '*' and four digits set the
\* pointer, two digits are a byte for the cell at the pointer, and a digit
\* without a partner (before a '*' or at the end) is no byte
RECURSIVE BinImage(_, _, _, _)
BinImage(m, s, i, p) ==
    IF i > Len(s) THEN m
    ELSE IF s[i] = "*" THEN BinImage(m, s, i + 5, HexNumber(s, i + 1, i + 4))
    ELSE IF i + 1 <= Len(s) /\ s[i + 1] # "*"
    THEN BinImage(Store(m, p, HexNumber(s, i, i + 1)), s, i + 2, p + 1)
    ELSE BinImage(m, s, i + 1, p)

\* C26: load_apex_bin sets the load pointer to the value of the four hex
\* digits that follow a '*' and stores each following pair of hex digits as
\* one byte at the load pointer, which it advances by one - whatever the case
\* of the letters, whatever characters that are no hex digits lie in between,
\* and also when the '*' comes after an odd number of data digits.
C26_BinLoadPointerAndBytes ==
    LoadedFile("bin") /\ AddressesComplete(Significant(last.file)) =>
        /\ last.error = "none"
        /\ m_memory = BinImage(last.pre, Significant(last.file), 1, 0)

\* C28: a truncated executable is a fatal load error: load_apex_sav fails on
\* a file whose length is no whole number of 256-byte pages, and
\* load_apex_bin fails on a file that ends after a '*' with fewer than four
\* address digits or with one data digit that has no partner.
C28_TruncatedFileIsFatal ==
    LET s == Significant(last.file)
        stars == { i \in DOMAIN s : s[i] = "*" }
        star == IF stars = {} THEN 0
                ELSE CHOOSE i \in stars : \A j \in stars : j <= i
        after == IF stars = {} THEN Len(s) ELSE Len(s) - star
        truncated_bin == \/ stars # {} /\ after < 4
                         \/ stars # {} /\ after >= 4 /\ (after - 4) % 2 = 1
        truncated_sav == Len(last.file) % PAGE_SIZE # 0
    IN  /\ LoadedFile("bin") /\ AddressesComplete(SubSeq(s, 1, star - 1))
                             /\ truncated_bin
           => last.error # "none" /\ phase = "aborted"
        /\ LoadedFile("sav") /\ truncated_sav
           => last.error # "none" /\ phase = "aborted"


\* the memory a SAV file of whole pages describes: bytes 0x00..0x4F of the
\* first page at 0xBF00.., its bytes 0x50..0xFF at 0x0050.., and the k-th
\* page after it at usrmem + 256 * k, usrmem being the word in bytes 0x15 and
\* 0x16 of the first page; a later page goes over an earlier one, and every
\* other cell is as in m
SavImage(m, file) ==
    LET pages  == Len(file) \div 256
        usrmem == file[22] + 256 * file[23]
        following(a) == { k \in 0..(pages - 2) :
                            usrmem + 256 * k <= a /\ a < usrmem + 256 * (k + 1) }
        page_of(a) == CHOOSE k \in following(a) : TRUE
        byte(a) == IF following(a) # {}
                   THEN file[256 * (page_of(a) + 1) + (a - usrmem - 256 * page_of(a)) + 1]
                   ELSE IF 48896 <= a /\ a <= 48975 THEN file[a - 48896 + 1]
                   ELSE IF 80 <= a /\ a <= 255 THEN file[a + 1]
                   ELSE Peek(m, a)
        touched == (48896..48975) \cup (80..255)
                   \cup { a \in 0..65535 : following(a) # {} }
    IN  [ a \in { x \in DOMAIN m \cup touched : byte(x) # 0 } |-> byte(a) ]

----------------------------------------------------------------------------
(* SIGINT (ibex.cc): main installs signal_handler before its loop, and the *)
(* handler runs finish() and std::exit(signum) at whatever point of the    *)
(* loop the signal finds the process.                                      *)

SIGINT == 2

\* the memory after the first n of the writes
RECURSIVE Written(_, _, _)
Written(m, writes, n) ==
    IF n = 0 THEN m
    ELSE Store(Written(m, writes, n - 1), writes[n].addr, writes[n].data)

\* the states of m_memory the iteration that is due passes through, each
\* with the memory the iteration leaves when it is complete: the memory as
\* the last iteration left it, and for an instruction the memory after each
\* of its writes
Passing ==
    LET stored(e) == e.op = "write" /\ e.addr < MemorySize
        through(c) == { [ image |-> Written(m_memory, SelectSeq(c.log, stored), n),
                          complete |-> c.m ] :
                          n \in 0..Len(SelectSeq(c.log, stored)) }
        idle == { [ image |-> m_memory, complete |-> m_memory ] }
        opcode == read_8(Cpu, registers.pc)
    IN  IF InApexBand(registers.pc) THEN idle
        ELSE UNION { IF info.inst \in HandledInsts
                     THEN through(execute_instruction(m_sets, opcode, info))
                     ELSE idle : info \in get(m_sets, opcode.v) }

\* signal_handler(SIGINT) while the loop runs:  finish();  std::exit(signum);
\* finish writes m_memory, as the signal found it, to the memory dump file
\* (option --dump is given)
Sigint ==
    /\ phase = "running"
    /\ run
    /\ \E found \in Passing :
         /\ m_memory' = found.image
         /\ history' = Append(history,
                              [ dump |-> found.image, complete |-> found.complete ]
                              @@ Observed("sigint", 0, NullInfo, Cpu, << >>))
    /\ phase' = "exited"
    /\ exit_code' = SIGINT
    /\ UNCHANGED << registers, m_halt, m_instruction_count, m_cycle_count,
                    m_sets, devices, plain_char_is_signed, run >>

SignalSpec == Init /\ [][Next \/ Sigint]_vars

\* C29: when SIGINT arrives, at whatever point of the execution, the memory
\* image the teardown writes is the memory after the last completed
\* instruction - never a state inside an instruction, as between the two
\* pushes of a JSR - and no instruction is executed after the signal.  (The
\* instruction the signal interrupts counts as completed when all its
\* writes are done.)
C29_SigintDumpsCompletedState ==
    /\ history # << >> /\ last.kind = "sigint"
       => /\ last.dump \in { last.pre.m_memory, last.complete }
          /\ m_instruction_count = last.pre.m_instruction_count
          /\ phase = "exited"
    /\ \A i \in DOMAIN history : history[i].kind = "sigint" => i = Len(history)


\* the latest iteration started with PC inside the Apex vectors but at none
\* of the eight entry addresses
OffEntry ==
    /\ history # << >>
    /\ InApexBand(last.pc)
    /\ (last.pc - VECTOR_START) % 3 # 0

\* C38: when PC lies inside the band 0xBFD0..0xBFE7 but is none of the eight
\* entry addresses 0xBFD0, 0xBFD3, .. 0xBFE5, the dispatch reports an
\* unrecognized entry vector and halts: no handler and no device is called,
\* and A, X, Y, P and the memory are unchanged.
C38_OffEntryVectorHalts ==
    OffEntry =>
        /\ last.kind = "apex"
        /\ ~ run
        /\ last.calls = << >>
        /\ devices = last.pre.devices
        /\ registers.a = last.pre.registers.a
        /\ registers.x = last.pre.registers.x
        /\ registers.y = last.pre.registers.y
        /\ registers.p = last.pre.registers.p
        /\ m_memory = last.pre.m_memory

\* JSR $BFE0, one byte after the entry of KRESTD: the loop ends with the
\* registers and the memory as the JSR left them
C38_Witness ==
    /\ OffEntry
    /\ last.pc = SYS_PAGE_ADDRESS + KRESTD + 1
    /\ AfterJsr
    /\ ~ run
    /\ registers.p = last.pre.registers.p
    /\ m_memory = last.pre.m_memory


\* the latest iteration executed a relative branch or a BBRn/BBSn
Branched ==
    /\ history # << >>
    /\ last.kind = "instruction"
    /\ last.info.mode \in {"RELATIVE", "ZP_RELATIVE"}

\* the address of the instruction that follows the branch
AfterBranch ==
    (last.pc + (IF last.info.mode = "RELATIVE" THEN 2 ELSE 3)) % 65536

\* C32: a branch that is not taken is charged its base and mode cycles only;
\* a taken branch is charged one more cycle, and a further one exactly when
\* the address of the instruction that follows the branch and the target of
\* the branch lie in different 256-byte pages.
C32_BranchCycles ==
    Branched =>
        LET fixed == last.info.base_cycle_count
                     + address_mode_added_cycles(last.info.mode)
                     + (IF m_cmos(m_sets) /\ last.info.cmos_extra_cycle THEN 1 ELSE 0)
            crossed == (AfterBranch \div 256) # (registers.pc \div 256)
        IN  /\ ~ Called("branch") => /\ last.icc = fixed
                                     /\ registers.pc = AfterBranch
            /\ Called("branch") => last.icc = fixed + 1 + (IF crossed THEN 1 ELSE 0)

\* BNE +2 at 0x04FC, taken from 0x04FE to 0x0500: four cycles
C32_Witness ==
    /\ Branched /\ Called("branch")
    /\ last.info.inst = "BNE"
    /\ last.pc = 1276
    /\ registers.pc = 1280
    /\ last.icc = 4


\* the JSR instructions that the latest iteration, an RTS, can return from
JsrBefore ==
    { i \in 1..(Len(history) - 1) :
        /\ history[i].kind = "instruction"
        /\ history[i].info.inst = "JSR"
        /\ Undisturbed(i) }

\* C35: JSR at address a pushes the high byte and then the low byte of a+2
\* and sets PC to its operand; an RTS executed afterwards with the stack
\* undisturbed resumes at a+3 with S as it was before the JSR, for every a
\* and every S, the wraparound of the stack pointer included.
C35_JsrRtsRoundTrip ==
    /\ Executed({"JSR"}) =>
          /\ Len(Pushes) = 2
          /\ Pushes[1].addr = STACK_BASE_ADDRESS + last.pre.registers.s
          /\ Pushes[1].data = Hi(U16(last.pc + 2))
          /\ Pushes[2].addr = STACK_BASE_ADDRESS + ((last.pre.registers.s - 1) % 256)
          /\ Pushes[2].data = Lo(U16(last.pc + 2))
          /\ registers.pc = Peek(last.pre.m_memory, U16(last.pc + 1))
                            + 256 * Peek(last.pre.m_memory, U16(last.pc + 2))
          /\ registers.s = (last.pre.registers.s - 2) % 256
    /\ Executed({"RTS"}) =>
          \A i \in JsrBefore :
              /\ registers.pc = U16(history[i].pc + 3)
              /\ registers.s = history[i].pre.registers.s

----------------------------------------------------------------------------
(* CPU6502::create(sets, memory_sp) for every bitset whose catalog the     *)
(* constructor builds in zeroed storage, at one instruction in memory.     *)

\* the bitsets for which InstructionSet::create returns, among the
\* predefined ones and those of one variant
Constructible ==
    { sets \in PredefinedSets \cup { {variant} : variant \in Set } :
         InstructionSet(sets, {}).error = "none" }

\* the opcode bytes at the instruction: records of every addressing mode of
\* three bytes, of the branches, and of the variants main never selects
VariantOpcodes ==
    { 234,     \* nop
      169,     \* lda #
      173,     \* lda abs
      144,     \* bcc rel
      176,     \* bcs rel
      15,      \* bbr0 zp,rel
      143,     \* bbs0 zp,rel
      147,     \* bcc rel16
      179,     \* bcs rel16
      226,     \* lda (d,s),y
      203,     \* wai
      219,     \* stp
      2,       \* cop
      66 }     \* wdm

\* the two bytes after the opcode
VariantOperands == { << 2, 5 >>, << 128, 5 >> }

\* the state of main's loop at the instruction, for a CPU of any bitset
VariantStart ==
    \E sets \in Constructible, opcode \in VariantOpcodes,
       operands \in VariantOperands, carry \in BOOLEAN :
      LET sc == Run(FALSE, Bytes(execution_address, << opcode >> \o operands))
      IN  /\ m_sets = sets
          /\ m_memory = load_raw_bin(apex_init(EmptyMemory), RawFile(sc.cells))
          /\ registers = [ a |-> 0, x |-> 0, y |-> 0, s |-> 255,
                           pc |-> execution_address,
                           p |-> set(52, C, carry), e |-> TRUE ]
          /\ m_halt = FALSE
          /\ m_instruction_count = 0
          /\ m_cycle_count = 0
          /\ devices = InitialDevices(sc)
          /\ plain_char_is_signed = sc.char_signed
          /\ run = TRUE
          /\ phase = "running"
          /\ exit_code = -1
          /\ history = << >>

\* one iteration of main's loop, at the instruction
VariantStep == history = << >> /\ ExecuteInstruction

VariantSpec == VariantStart /\ [][VariantStep]_vars

\* InstructionSet::s_operand_size_bytes[mode]
s_operand_size_bytes(mode) ==
    CASE mode \in {"IMPLIED", "ACCUMULATOR"}                        -> 0
      [] mode \in {"IMMEDIATE", "ZERO_PAGE", "ZERO_PAGE_X", "ZERO_PAGE_Y",
                   "ZP_IND", "ZP_X_IND", "ZP_IND_Y", "RELATIVE",
                   "ST_VEC_IND_Y"}                                   -> 1
      [] mode \in {"ABSOLUTE", "ABSOLUTE_X", "ABSOLUTE_Y", "ABSOLUTE_IND",
                   "ABS_X_IND", "ZP_RELATIVE", "RELATIVE_16"}        -> 2

\* the mnemonics that load PC whatever the operand
Transfers == {"JMP", "JSR", "RTS", "RTI", "BRK"}

\* C36: an instruction that has a handler and does not transfer control (no
\* taken branch, no JMP, JSR, RTS, RTI, BRK) leaves PC at the address of its
\* opcode + 1 + operand_size_bytes(mode) modulo 65536 and raises the
\* instruction counter by exactly 1, in every addressing mode.
C36_PcAdvancesByInstructionLength ==
    ( /\ history # << >>
      /\ last.kind = "instruction"
      /\ last.info.inst \notin Transfers
      /\ ~ Called("branch") ) =>
        /\ registers.pc = (last.pc + 1 + s_operand_size_bytes(last.info.mode)) % 65536
        /\ m_instruction_count = last.pre.m_instruction_count + 1


\* C37: for every bitset the CPU can be created with, an opcode that the
\* catalog lookup reports as defined (get() returns one of the table's
\* records) has a handler in s_execute_inst_fn_ptrs, and execute_instruction
\* does not call through an empty slot of that table.
C37_DefinedOpcodeHasHandler ==
    ( /\ history # << >>
      /\ last.kind \in {"instruction", "wild", "fault"}
      /\ last.info \in { Info(t) : t \in Range(s_main_table) } ) =>
        /\ last.info.inst \in HandledInsts
        /\ last.kind # "wild"


\* the accesses to the memory array that the latest iteration made
Accesses ==
    { last.log[i].addr : i \in { j \in DOMAIN last.log :
                                   last.log[j].op \in {"read", "write"} } }

\* C34: every memory read and write made while one instruction executes uses
\* an address in 0 .. 0xFFFF, whatever the registers and the memory hold: the
\* indexed effective addresses and the fetches at PC+1, PC+2 and addr+1 stay
\* inside the 64 KiB memory array.
C34_AccessesInsideMemory ==
    ( /\ history # << >>
      /\ last.kind \in {"instruction", "undefined", "fault", "wild"} ) =>
        /\ Accesses \subseteq 0..(MemorySize - 1)
        /\ last.kind # "fault"


----------------------------------------------------------------------------
(* The ADC of the other revision of the CPU in the source (cpu6502.cc),    *)
(* beside the one the executable runs.                                     *)

\* CPU6502::execute_ADC of src/src/cpu6502.cc: the binary sum, corrected
\* digit by digit when D is set
cpu6502_cc_execute_ADC(c) ==
    LET c1 == read_8(c, c.ea1)
        operand == c1.v
        a == c1.r.a
        carry_in == IF test(c1.r.p, C) THEN 1 ELSE 0
        sum == U16(a + operand + carry_in)
        result_7_bit == U8((a % 128) + (operand % 128) + carry_in)
        carry_8 == (sum \div 256) # 0
        carry_7 == (result_7_bit \div 128) # 0
        result == sum % 256
        c2 == set_flag(c1, Z, result = 0)
    IN
    IF ~ test(c2.r.p, D)
    THEN LET n1 == set_flag(c2, N, (result \div 128) # 0)
             n2 == set_flag(n1, C, carry_8)
             n3 == set_flag(n2, V, carry_8 # carry_7)
         IN  set_a(n3, result)
    ELSE LET result_4_bit == U8((a % 16) + (operand % 16) + carry_in)
             carry_4 == (result_4_bit \div 16) # 0
             over_9 == ~ carry_4 /\ (result % 16) > 9
             carry_8a == IF over_9 THEN carry_8 \/ result >= 250 ELSE carry_8
             result_a == IF carry_4
                         THEN BitOr((result \div 16) * 16, (result + 6) % 16)
                         ELSE IF over_9 THEN (result + 6) % 256
                         ELSE result
             d1 == set_flag(c2, N, (result_a \div 128) # 0)
             d2 == set_flag(d1, V, carry_8a # carry_7)
             carry_8b == carry_8a \/ result_a >= 160
             result_b == IF carry_8b THEN (result_a + 96) % 256 ELSE result_a
             d3 == set_flag(d2, C, carry_8b)
         IN  set_a(d3, result_b)

\* one iteration of main's loop at the instruction, with the handler of
\* cpu6502.cc applied to the same registers, memory and effective address:
\* the record of the iteration has the registers that handler leaves in
\* its field older
ExecuteBoth ==
    /\ history = << >>
    /\ phase = "running"
    /\ run
    /\ \E info \in get(m_sets, Peek(m_memory, registers.pc)) :
         LET fetched == read_8(Cpu, registers.pc)
             at == compute_effective_address(m_sets, advance_pc(fetched, 1), info)
             c == execute_instruction(m_sets, fetched, info)
         IN  /\ Commit(c)
             /\ run' = ~ c.halt
             /\ history' = << [ older |-> cpu6502_cc_execute_ADC(at).r ]
                              @@ Observed("instruction", fetched.v, info, c, << >>) >>
    /\ UNCHANGED << m_sets, devices, plain_char_is_signed, phase, exit_code >>

\* ADC on NMOS, by both handlers
TwinSpec == AluStart({FALSE}, {ADC_IMMEDIATE}) /\ [][ExecuteBoth]_vars

\* the flags of the claim
AdcFlags(p) == [ f \in {C, Z, V, N} |-> test(p, f) ]

\* C33: in decimal mode on NMOS, for every valid BCD A and M and either
\* carry, the ADC of part_006 (the sums of the decimal digits) and the ADC
\* of cpu6502.cc (the corrected binary sum) leave the same A, C, N, Z and V.
C33_DecimalAdcHandlersAgree ==
    ( /\ Executed({"ADC"})
      /\ ~ m_bcd_cmos(m_sets)
      /\ AluD
      /\ IsBcd(AluA) /\ IsBcd(AluM) ) =>
        /\ last.older.a = registers.a
        /\ AdcFlags(last.older.p) = AdcFlags(registers.p)


----------------------------------------------------------------------------
(* The end of the loop.                                                    *)

\* main proceeds from the end of its loop to finish() and return
FairSpec == Spec /\ WF_vars(Finish)

\* the record that a step appends to history
Appended == history'[Len(history')]

\* the step is one iteration of the loop or the teardown
Recorded ==
    /\ Len(history') = Len(history) + 1
    /\ SubSeq(history', 1, Len(history)) = history

\* the iteration of the step reports halt: execute_instruction returns
\* m_halt, or true for an undefined opcode; vector_exec returns true for the
\* exits, for KSCAN, KREAD, KWRITE and for an address that is no entry
ReportsHalt ==
    /\ Recorded
    /\ \/ Appended.kind = "instruction" /\ m_halt'
       \/ Appended.kind = "undefined"
       \/ /\ Appended.kind = "apex"
          /\ \/ Entry(Appended) \in {KRENTR, KSAVER, KRELOD, KSCAN, KREAD, KWRITE}
             \/ (Appended.pc - VECTOR_START) % 3 # 0

\* the step is finish() and the return from main: no opcode is fetched, no
\* Apex handler is dispatched, and the CPU and the devices stay as they are
Teardown ==
    /\ Recorded
    /\ Appended.kind = "finish"
    /\ Appended.log = << >> /\ Appended.calls = << >>
    /\ phase = "running" /\ phase' = "exited"
    /\ UNCHANGED << registers, m_memory, m_halt, m_instruction_count,
                    m_cycle_count, devices, run >>

\* the number of times finish() has run
Teardowns == Cardinality({ i \in DOMAIN history : history[i].kind = "finish" })

====
